---- MODULE Spec2Model ----
(***************************************************************************)
(* The block editor of src/components/RichEditor.tsx together with its     *)
(* host page (src/unnamed/part_003, EditorPage), as a state machine.       *)
(*                                                                         *)
(* An HTML string is a sequence of tokens, each token a string: a tag      *)
(* ("<p>", "</p>", "<hr>", "<br>"), one character of text ("a", "/"), or   *)
(* one whole non-editable element.  The length of an HTML string is the    *)
(* sum of the lengths of its tokens (the attribute lists of the long       *)
(* non-editable elements are abridged).  The DOM under the editable root   *)
(* is a sequence of nodes with identity; reading innerHTML serializes it,  *)
(* assigning innerHTML parses a string into fresh nodes.                   *)
(***************************************************************************)
EXTENDS Integers, Sequences, FiniteSets, TLC

VARIABLES
    gestures,           \* pointer presses and key strokes handled so far
    dom,               \* children of editorRef.current, in document order
    content,           \* the host's content state (EditorPage), the content prop
    syncPending,       \* the content prop changed and the effects have not run yet
    focused,           \* document.activeElement === editorRef.current
    sel,               \* window.getSelection(): [kind, node, collapsed, tail]
    activeBlock,       \* useState activeBlock: a node id, NoNode for null
    showSideControls,
    showBlockOptions,
    isDragging,
    dragSession,       \* a native drag started on the grip has not had its dragend
    detached,          \* nodes out of the document that something still refers to
    dropIndicator,     \* TRUE when the dropIndicator state is not null
    dropTargetInfo,    \* [el, pos]; el = NoNode for null
    showMenu,
    showBubbleMenu,
    aiMode,            \* "none" | "prompt" | "loading"
    selectionRange,    \* node whose text the captured Range covers, NoNode for null
    timers,            \* callbacks handed to setTimeout / requestAnimationFrame
    aiReq,             \* the pending onAiRequest calls: for each, the node whose
                       \* selected text it was issued for
    imgReq,            \* AI image insertion: "idle" | "first" | "auth" | "retry"
    imgCalls,          \* generateImage calls made by the insertion in progress
    fontStyle,         \* useState fontStyle: "sans" | "serif" | "mono"
    wordCount,         \* useState wordCount (footer)
    readingTime,       \* useState readingTime, in minutes (footer)
    lastOp,            \* the handler that ran in the last step
    emits              \* the arguments of the onChange calls of the last step

vars == << gestures, dom, content, syncPending, focused, sel, activeBlock, showSideControls,
           showBlockOptions, isDragging, dragSession, detached, dropIndicator,
           dropTargetInfo, showMenu, showBubbleMenu, aiMode, selectionRange, timers, aiReq, imgReq,
           imgCalls, fontStyle, wordCount, readingTime, lastOp, emits >>

-----------------------------------------------------------------------------
(* Bounds of the model *)

\* at most this many children under the editable root
MaxBlocks == 3

\* at most this many characters of text in one block
MaxText == 2

\* a mouse or key event is taken while fewer than this many deferred callbacks
\* (timeouts, animation frames) are outstanding
MaxPending == 1

\* pointer presses and key strokes of one editing session
MaxGestures == 5

-----------------------------------------------------------------------------
(* HTML strings *)

NoNode == 0

RECURSIVE StrLen(_)
StrLen(s) == IF s = << >> THEN 0 ELSE Len(Head(s)) + StrLen(Tail(s))

Abs(n) == IF n < 0 THEN -n ELSE n

\* text typed by the user; "b" is text an AI rewrite returns
Chars == {"a", "/"}

\* What the class attribute of an element says about opacity-40: the element
\* never carried it (Plain), carries it (Dimmed), or had it taken off again
\* (Cleared: classList.remove leaves class="" on an element that had no other
\* class)
Plain == "plain"
Dimmed == "dimmed"
Cleared == "cleared"
DimStates == {Plain, Dimmed, Cleared}

\* Tokens that are one whole element: the divider, the line break, the
\* placeholder of handleGenerateAiImage, the image that replaces it and the
\* failure message written into it, an uploaded image and an embedded video
\* (attribute lists abridged)
AtomTok(tag, dim) ==
    CASE tag = "hr" /\ dim = Plain -> "<hr>"
      [] tag = "hr" /\ dim = Dimmed -> "<hr class=\"opacity-40\">"
      [] tag = "hr" /\ dim = Cleared -> "<hr class=\"\">"
      [] tag = "br" -> "<br>"
      [] tag = "loading" /\ dim # Dimmed ->
            "<div id=\"loading-1\" class=\"animate-pulse\">Generating</div>"
      [] tag = "loading" /\ dim = Dimmed ->
            "<div id=\"loading-1\" class=\"animate-pulse opacity-40\">Generating</div>"
      [] tag = "img" /\ dim # Dimmed -> "<img src=\"data:image/png;base64,\" class=\"w-full\">"
      [] tag = "img" /\ dim = Dimmed ->
            "<img src=\"data:image/png;base64,\" class=\"w-full opacity-40\">"
      [] tag = "error" /\ dim # Dimmed -> "<div id=\"loading-1\" class=\"my-6\">Failed</div>"
      [] tag = "error" /\ dim = Dimmed ->
            "<div id=\"loading-1\" class=\"my-6 opacity-40\">Failed</div>"
      [] tag = "upload" /\ dim # Dimmed ->
            "<div class=\"my-6\" contenteditable=\"false\"><img src=\"data:\"></div>"
      [] tag = "upload" /\ dim = Dimmed ->
            "<div class=\"my-6 opacity-40\" contenteditable=\"false\"><img src=\"data:\"></div>"
      [] tag = "video" /\ dim # Dimmed ->
            "<div class=\"aspect-video\" contenteditable=\"false\"><iframe></iframe></div>"
      [] tag = "video" /\ dim = Dimmed ->
            "<div class=\"aspect-video opacity-40\" contenteditable=\"false\"><iframe></iframe></div>"

AtomTags == {"hr", "br", "loading", "img", "error", "upload", "video"}

\* the elements whose class attribute is empty once opacity-40 is taken off
ClassLess == {"p", "h1", "hr"}

\* the element a one-element token stands for; "<hr />" is the source's spelling
\* of the divider
AtomOf(tok) ==
    IF tok = "<hr />" THEN [tag |-> "hr", dim |-> Plain]
    ELSE IF \E t \in AtomTags : AtomTok(t, Plain) = tok
         THEN [tag |-> CHOOSE t \in AtomTags : AtomTok(t, Plain) = tok, dim |-> Plain]
    ELSE IF \E t \in AtomTags, d \in DimStates : AtomTok(t, d) = tok
         THEN CHOOSE a \in [tag : AtomTags, dim : DimStates] : AtomTok(a.tag, a.dim) = tok
         ELSE [tag |-> "", dim |-> Plain]

OpenP(dim) ==
    CASE dim = Plain -> "<p>"
      [] dim = Dimmed -> "<p class=\"opacity-40\">"
      [] dim = Cleared -> "<p class=\"\">"

\* the start tag of a heading (formatBlock H1)
OpenH1(dim) ==
    CASE dim = Plain -> "<h1>"
      [] dim = Dimmed -> "<h1 class=\"opacity-40\">"
      [] dim = Cleared -> "<h1 class=\"\">"

\* the elements that hold text
TextTags == {"p", "h1"}

\* the tags of the inline code element of toggleInlineCode (class list abridged);
\* in the text of a block they stand around the characters of the element
CodeOpen == "<code class=\"font-mono\">"
CodeClose == "</code>"

\* the inline elements execCommand('bold') and execCommand('backColor', ...) put
\* around the selected text
MarkOpen(command) ==
    IF command = "bold" THEN "<b>" ELSE "<span style=\"background-color: rgb(253, 224, 71);\">"
MarkClose(command) == IF command = "bold" THEN "</b>" ELSE "</span>"

\* the commands of the bubble menu's format buttons that the model follows
BubbleCommands == {"bold", "backColor"}

\* start and end tags of inline elements inside a block's content
InlineMarks ==
    {CodeOpen, CodeClose} \cup {MarkOpen(c) : c \in BubbleCommands}
                          \cup {MarkClose(c) : c \in BubbleCommands}

\* elements that may sit inside a paragraph
InlineTags == {"br", "img"}

\* what the data model calls a Block; a text node or a <br> directly under the
\* root is loose inline content
BlockTags == {"p", "h1", "hr", "loading", "img", "error", "upload", "video"}

-----------------------------------------------------------------------------
(* The DOM under the editable root *)

Node(id, tag, dim, text) == [id |-> id, tag |-> tag, dim |-> dim, text |-> text]

Ids(d) == {d[i].id : i \in 1..Len(d)}

IndexOf(d, id) == IF id \in Ids(d) THEN CHOOSE i \in 1..Len(d) : d[i].id = id ELSE 0

Without(d, id) == SelectSeq(d, LAMBDA n : n.id # id)

InsertAt(d, i, n) == SubSeq(d, 1, i - 1) \o << n >> \o SubSeq(d, i, Len(d))

\* outerHTML of one child of the root
NodeHtml(n) ==
    CASE n.tag = "p" -> << OpenP(n.dim) >> \o n.text \o << "</p>" >>
      [] n.tag = "h1" -> << OpenH1(n.dim) >> \o n.text \o << "</h1>" >>
      [] n.tag = "#text" -> n.text
      [] OTHER -> << AtomTok(n.tag, n.dim) >>

\* editorRef.current.innerHTML (getter)
RECURSIVE Serialize(_)
Serialize(d) == IF d = << >> THEN << >> ELSE NodeHtml(Head(d)) \o Serialize(Tail(d))

\* the HTML parser's tree construction, for the tokens of this model: acc.out are
\* the children built so far, acc.open says that the last of them is a <p> or
\* <h1> that is still open
ParseStep(acc, tok) ==
    LET out == acc.out
        n == Len(out)
        inP == acc.open
        atom == AtomOf(tok)
        proto(tag, dim, text) == [tag |-> tag, dim |-> dim, text |-> text]
    IN  CASE tok \in {OpenP(x) : x \in DimStates} ->
                \* a <p> start tag closes an open <p>
                [out |-> Append(out, proto("p", CHOOSE x \in DimStates : OpenP(x) = tok,
                                           << >>)),
                 open |-> TRUE]
          [] tok = "</p>" ->
                \* an end tag with no <p> open inserts an empty <p>
                IF inP THEN [out |-> out, open |-> FALSE]
                ELSE [out |-> Append(out, proto("p", Plain, << >>)), open |-> FALSE]
          [] tok \in {OpenH1(x) : x \in DimStates} ->
                \* a heading start tag closes an open <p>
                [out |-> Append(out, proto("h1", CHOOSE x \in DimStates : OpenH1(x) = tok,
                                           << >>)),
                 open |-> TRUE]
          [] tok = "</h1>" ->
                \* an end tag with no heading open is ignored
                IF inP /\ out[n].tag = "h1" THEN [out |-> out, open |-> FALSE] ELSE acc
          [] atom.tag # "" /\ inP /\ atom.tag \in InlineTags ->
                [out |-> [out EXCEPT ![n].text = Append(@, AtomTok(atom.tag, atom.dim))],
                 open |-> TRUE]
          [] atom.tag # "" /\ ~(inP /\ atom.tag \in InlineTags) ->
                \* <hr> and <div> close an open <p>
                [out |-> Append(out, proto(atom.tag, atom.dim, << >>)), open |-> FALSE]
          [] OTHER ->
                \* a character
                IF inP THEN [out |-> [out EXCEPT ![n].text = Append(@, tok)], open |-> TRUE]
                ELSE IF n > 0 /\ out[n].tag = "#text"
                     THEN [out |-> [out EXCEPT ![n].text = Append(@, tok)], open |-> FALSE]
                     ELSE [out |-> Append(out, proto("#text", Plain, << tok >>)),
                           open |-> FALSE]

RECURSIVE ParseFrom(_, _)
ParseFrom(acc, s) == IF s = << >> THEN acc.out ELSE ParseFrom(ParseStep(acc, Head(s)), Tail(s))

\* the k-th smallest node identity not in avoid
RECURSIVE FreshId(_, _)
FreshId(avoid, k) ==
    LET m == CHOOSE i \in 1..(Cardinality(avoid) + 1) : i \notin avoid
    IN  IF k = 1 THEN m ELSE FreshId(avoid \cup {m}, k - 1)

\* editorRef.current.innerHTML = html: the old children are dropped and the
\* parsed ones are new nodes
SetInnerHTML(html, avoid) ==
    LET protos == ParseFrom([out |-> << >>, open |-> FALSE], html)
    IN  [i \in 1..Len(protos) |->
            Node(FreshId(avoid, i), protos[i].tag, protos[i].dim, protos[i].text)]

-----------------------------------------------------------------------------
(* State shared by the handlers *)

\* window.getSelection(): where it lies, the child of the root its anchor and focus
\* are in, whether it is a caret, and the number of characters of that child's text
\* after the caret (0: the caret is at the end; a range covers the whole text)
NoSelection == [kind |-> "none", node |-> NoNode, collapsed |-> TRUE, tail |-> 0]
RootSelection == [kind |-> "root", node |-> NoNode, collapsed |-> TRUE, tail |-> 0]
OutsideSelection == [kind |-> "outside", node |-> NoNode, collapsed |-> FALSE, tail |-> 0]
BlockSelection(id, collapsed) ==
    [kind |-> "block", node |-> id, collapsed |-> collapsed, tail |-> 0]
CaretSelection(id, tail) ==
    [kind |-> "block", node |-> id, collapsed |-> TRUE, tail |-> tail]

\* the part of a text in front of a caret that has tail characters after it
BeforeCaret(text, tail) == SubSeq(text, 1, Len(text) - tail)
AfterCaret(text, tail) == SubSeq(text, Len(text) - tail + 1, Len(text))

NoTarget == [el |-> NoNode, pos |-> "before"]

hostVars == << content, syncPending >>
sideVars == << activeBlock, showSideControls, showBlockOptions >>
dragVars == << isDragging, dragSession, dropIndicator, dropTargetInfo >>
menuVars == << showMenu, showBubbleMenu, aiMode, selectionRange >>
aiVars == << aiReq, imgReq, imgCalls >>
statVars == << wordCount, readingTime >>

\* node identities some state or pending callback still refers to
Referenced ==
    ({activeBlock, dropTargetInfo.el, selectionRange, sel.node}
        \cup {t.node : t \in timers}
        \cup {aiReq[k] : k \in 1..Len(aiReq)}) \ {NoNode}

NewId == FreshId(Ids(dom) \cup Referenced, 1)

\* the node a reference points to, in the document or out of it
Deref(id) ==
    IF id \in Ids(dom) THEN dom[IndexOf(dom, id)]
    ELSE CHOOSE n \in detached : n.id = id

\* nodes taken out of the document stay alive while something refers to them
Keep(candidates) ==
    detached' = {n \in candidates : n.id \in Referenced' /\ n.id \notin Ids(dom')}

Range(d) == {d[i] : i \in 1..Len(d)}

\* a range whose boundary points sit in removed nodes collapses into the parent
SelectionAfterRemoval(s, removed) ==
    IF s.kind = "block" /\ s.node \in removed THEN RootSelection ELSE s

\* the text of a block without its elements (textContent)
TextOf(n) ==
    SelectSeq(n.text, LAMBDA t : t \notin {AtomTok(a, d) : a \in AtomTags, d \in DimStates}
                                            \cup InlineMarks)

EndsWithSlash(text) == text # << >> /\ text[Len(text)] = "/"

IncludesSlash(text) == \E i \in 1..Len(text) : text[i] = "/"

\* no event is dispatched before the effects of the last render have run
Idle == ~syncPending

\* mouse and key events are not dispatched during a native drag; the model lets
\* them wait while MaxPending deferred callbacks are outstanding
Interactive == Idle /\ ~dragSession /\ Cardinality(timers) < MaxPending

\* one more pointer press or key stroke of the session
Gesture == gestures < MaxGestures /\ gestures' = gestures + 1

\* no backdrop (the fixed inset-0 layer under the slash menu and under the block
\* options) lies over the page: the pointer reaches the editor and its controls
Uncovered == ~showMenu /\ ~showBlockOptions

\* the side controls are rendered (showSideControls && activeBlock)
SideControlsShown == showSideControls /\ activeBlock # NoNode

-----------------------------------------------------------------------------
(* Host page (EditorPage) *)

\* strings the host may hand down that did not come from onChange: a stored
\* post, an AI draft
ExternalContents ==
    { << >>,
      << "<p>", "a", "</p>" >>,
      << "<p>", "a", "</p>", "<p>", "/", "</p>" >>,
      << "<p>", "a", "</p>", "<hr>", "<p>", "/", "</p>" >>,
      << "<p>", "a", "/", "a", "</p>" >>,
      << "<p>", "<br>", "</p>" >>,
      << "<p>", "a" >>,
      << "<hr />" >>,
      << "a" >> }

\* onChange={setContent}: a re-render with a changed content prop runs the effects
SetContent(html) ==
    /\ content' = html
    /\ syncPending' = (html # content)

\* onChange(html) as the only call of a handler
Emit(html) ==
    /\ SetContent(html)
    /\ emits' = << html >>

NoEmit ==
    /\ emits' = << >>
    /\ UNCHANGED hostVars

\* setContent(post.content), setContent(draft)
HostSetContent(html) ==
    /\ Idle
    /\ html # content
    /\ SetContent(html)
    /\ emits' = << >>
    /\ lastOp' = "HostSetContent"
    /\ UNCHANGED << statVars, fontStyle >>
    /\ UNCHANGED gestures
    /\ UNCHANGED << dom, focused, sel, sideVars, dragVars, detached, menuVars, timers, aiVars >>

-----------------------------------------------------------------------------
(* Footer statistics *)

\* characters that end a word in innerText: a blank, a line break, an image
WordBreaks == {" ", AtomTok("br", Plain)} \cup {AtomTok("img", x) : x \in DimStates}

\* the words of the text of one block: split(/\s+/) of its rendered text, the
\* tags of inline code taking no room
WordsIn(text) ==
    LET t == SelectSeq(text, LAMBDA x : x \notin InlineMarks)
    IN  Cardinality({k \in 1..Len(t) :
                        /\ t[k] \notin WordBreaks
                        /\ k = 1 \/ t[k - 1] \in WordBreaks})

\* the words of editorRef.current.innerText; every child of the root renders on
\* lines of its own (placeholder and failure message abridged to one word)
RECURSIVE Words(_)
Words(d) ==
    IF d = << >> THEN 0
    ELSE (CASE Head(d).tag \in TextTags \cup {"#text"} -> WordsIn(Head(d).text)
            [] Head(d).tag \in {"loading", "error"} -> 1
            [] OTHER -> 0) + Words(Tail(d))

WordsPerMinute == 200

\* Math.ceil(words / 200)
ReadingTime(words) == (words + WordsPerMinute - 1) \div WordsPerMinute

-----------------------------------------------------------------------------
(* Content synchronization *)

SyncThreshold == 10

\* the condition under which the effect assigns innerHTML
\* the rule with the threshold itself counted as a significant difference
ShouldOverwriteAtThreshold(incoming, currentHTML, isFocused) ==
    /\ incoming # currentHTML
    /\ \/ ~isFocused
       \/ Abs(StrLen(incoming) - StrLen(currentHTML)) >= SyncThreshold
       \/ incoming = << >>

\* the rule without the reset case
ShouldOverwriteNoReset(incoming, currentHTML, isFocused) ==
    /\ incoming # currentHTML
    /\ \/ ~isFocused
       \/ Abs(StrLen(incoming) - StrLen(currentHTML)) > SyncThreshold

\* the rule without the focus test
ShouldOverwriteFocusBlind(incoming, currentHTML, isFocused) ==
    /\ incoming # currentHTML
    /\ \/ Abs(StrLen(incoming) - StrLen(currentHTML)) > SyncThreshold
       \/ incoming = << >>

\* the rule without the comparison of the two strings
ShouldOverwriteUncompared(incoming, currentHTML, isFocused) ==
    \/ ~isFocused
    \/ Abs(StrLen(incoming) - StrLen(currentHTML)) > SyncThreshold
    \/ incoming = << >>

ShouldOverwrite(incoming, currentHTML, isFocused) ==
    /\ incoming # currentHTML
    /\ \/ ~isFocused
       \/ Abs(StrLen(incoming) - StrLen(currentHTML)) > SyncThreshold
       \/ incoming = << >>

\* an effect that reports what it found in the DOM
ReconcileEmitsCurrent(currentHTML) == << currentHTML >>

\* what the effect passes to onChange: nothing
ReconcileEmits(currentHTML) == << >>

\* the effects of a render with a changed content prop: useEffect(..., [content])
\* of the synchronizer, then useEffect(..., [content]) of the statistics
Reconcile ==
    /\ syncPending
    /\ LET currentHTML == Serialize(dom)
           write == ShouldOverwrite(content, currentHTML, focused)
       IN  /\ dom' = IF write THEN SetInnerHTML(content, Referenced) ELSE dom
           /\ sel' = IF write THEN SelectionAfterRemoval(sel, Ids(dom)) ELSE sel
           /\ emits' = ReconcileEmits(currentHTML)
    /\ syncPending' = FALSE
    /\ wordCount' = Words(dom')
    /\ readingTime' = ReadingTime(wordCount')
    /\ UNCHANGED fontStyle
    /\ lastOp' = "Reconcile"
    /\ UNCHANGED gestures
    /\ UNCHANGED << content, focused, sideVars, dragVars, menuVars, timers, aiVars >>
    /\ Keep(detached \cup Range(dom))

-----------------------------------------------------------------------------
(* Block tracker *)

\* updateActiveBlock with the isDragging its closure holds, on selection s and
\* document d: the new activeBlock and showSideControls.  A text node that is a
\* child of the root has no getBoundingClientRect: the call throws.
UpdateActiveBlock(s, d, drag) ==
    LET hit == s.kind = "block" /\ s.node \in Ids(d)
    IN  IF hit /\ d[IndexOf(d, s.node)].tag = "#text"
        THEN [ab |-> activeBlock, side |-> showSideControls, threw |-> TRUE]
        ELSE IF hit
             THEN [ab |-> s.node, side |-> TRUE, threw |-> FALSE]
             ELSE [ab |-> activeBlock,
                   side |-> IF drag THEN showSideControls ELSE FALSE,
                   threw |-> FALSE]

Task(fn, node, drag, ai) == [fn |-> fn, node |-> node, drag |-> drag, ai |-> ai]

\* setTimeout(updateActiveBlock, ...) from a handler of the current render
UpdateTask == Task("updateActiveBlock", NoNode, isDragging, "none")

\* checkSelection: requestAnimationFrame of a closure over updateActiveBlock and aiMode
CheckSelectionTask == Task("checkSelection", NoNode, isDragging, aiMode)

-----------------------------------------------------------------------------
(* Pointer, focus and typing *)

\* mouseup and click inside a paragraph, a heading or a loose text node, or the keys that
\* move the caret there (keyup): a caret, or a range over its text.  Under a
\* backdrop only the keys of a focused editor do it.
ClickBlock(id, collapsed) ==
    /\ Interactive
    /\ Uncovered \/ focused
    /\ id \in Ids(dom)
    /\ Deref(id).tag \in TextTags \cup {"#text"}
    /\ ~collapsed => TextOf(Deref(id)) # << >>
    /\ focused' = TRUE
    /\ sel' = BlockSelection(id, collapsed)
    /\ timers' = timers \cup {CheckSelectionTask}
    /\ NoEmit
    /\ lastOp' = "ClickBlock"
    /\ UNCHANGED << statVars, fontStyle >>
    /\ Gesture
    /\ UNCHANGED << dom, sideVars, dragVars, menuVars, aiVars >>
    /\ Keep(detached)

\* mouseup and click on the editable root itself
ClickRoot ==
    /\ Interactive
    /\ Uncovered
    /\ focused' = TRUE
    /\ sel' = RootSelection
    /\ timers' = timers \cup {CheckSelectionTask}
    /\ NoEmit
    /\ lastOp' = "ClickRoot"
    /\ UNCHANGED << statVars, fontStyle >>
    /\ Gesture
    /\ UNCHANGED << dom, sideVars, dragVars, menuVars, aiVars >>
    /\ Keep(detached)

\* mouseup and click in front of the last character of a paragraph or heading of
\* plain text
ClickInside(id) ==
    /\ Interactive
    /\ Uncovered \/ focused
    /\ id \in Ids(dom)
    /\ Deref(id).tag \in TextTags
    /\ Deref(id).text # << >>
    /\ \A i \in 1..Len(Deref(id).text) : Deref(id).text[i] \in Chars
    /\ focused' = TRUE
    /\ sel' = CaretSelection(id, 1)
    /\ timers' = timers \cup {CheckSelectionTask}
    /\ NoEmit
    /\ lastOp' = "ClickInside"
    /\ UNCHANGED << statVars, fontStyle >>
    /\ Gesture
    /\ UNCHANGED << dom, sideVars, dragVars, menuVars, aiVars >>
    /\ Keep(detached)

\* mouseup and click at the end of an inline code element that ends a block
ClickCode(id) ==
    /\ Interactive
    /\ Uncovered \/ focused
    /\ id \in Ids(dom)
    /\ Deref(id).tag \in TextTags
    /\ Deref(id).text # << >>
    /\ Deref(id).text[Len(Deref(id).text)] = CodeClose
    /\ focused' = TRUE
    /\ sel' = CaretSelection(id, 1)
    /\ timers' = timers \cup {CheckSelectionTask}
    /\ NoEmit
    /\ lastOp' = "ClickCode"
    /\ UNCHANGED << statVars, fontStyle >>
    /\ Gesture
    /\ UNCHANGED << dom, sideVars, dragVars, menuVars, aiVars >>
    /\ Keep(detached)

\* the user selects text elsewhere on the page
SelectOutside ==
    /\ Interactive
    /\ Uncovered
    /\ focused' = FALSE
    /\ sel' = OutsideSelection
    /\ NoEmit
    /\ lastOp' = "SelectOutside"
    /\ UNCHANGED << statVars, fontStyle >>
    /\ Gesture
    /\ UNCHANGED << dom, sideVars, dragVars, menuVars, timers, aiVars >>
    /\ Keep(detached)

\* focus moves to another control; the selection stays
Blur ==
    /\ Interactive
    /\ focused
    /\ focused' = FALSE
    /\ NoEmit
    /\ lastOp' = "Blur"
    /\ UNCHANGED << statVars, fontStyle >>
    /\ UNCHANGED gestures
    /\ UNCHANGED << dom, sel, sideVars, dragVars, detached, menuVars, timers, aiVars >>

\* the browser's edit for one typed character, at the caret or over the range
TypedInto(n, s, c) ==
    IF s.collapsed /\ n.text # << "<br>" >>
    THEN [n EXCEPT !.text = BeforeCaret(@, s.tail) \o << c >> \o AfterCaret(@, s.tail)]
    ELSE [n EXCEPT !.text = << c >>]

\* the slash menu after an input event: text is the text of the focus node
SlashMenuAfterInput(text, open) ==
    IF EndsWithSlash(text) /\ ~open THEN TRUE
    ELSE IF ~IncludesSlash(text) THEN FALSE
    ELSE open

\* a typed character: handleInput, and the selection check of its keyup
TypeChar(c) ==
    /\ Interactive
    /\ focused
    /\ \/ /\ sel.kind = "block"
          /\ Len(Deref(sel.node).text) < MaxText \/ ~sel.collapsed
          /\ LET i == IndexOf(dom, sel.node)
             IN  dom' = [dom EXCEPT ![i] = TypedInto(dom[i], sel, c)]
          /\ sel' = CaretSelection(sel.node, IF sel.collapsed THEN sel.tail ELSE 0)
       \/ /\ sel.kind = "root"
          /\ dom = << >>
          /\ dom' = << Node(NewId, "#text", Plain, << c >>) >>
          /\ sel' = BlockSelection(NewId, TRUE)
    /\ Emit(Serialize(dom'))
    /\ LET u == UpdateActiveBlock(sel', dom', isDragging)
       IN  /\ activeBlock' = u.ab
           /\ showSideControls' = u.side
           /\ showMenu' = IF u.threw THEN showMenu
                          ELSE SlashMenuAfterInput(TextOf(dom'[IndexOf(dom', sel'.node)]),
                                                   showMenu)
    /\ timers' = timers \cup {CheckSelectionTask}
    /\ lastOp' = "TypeChar"
    /\ UNCHANGED << statVars, fontStyle >>
    /\ Gesture
    /\ UNCHANGED << focused, showBlockOptions, dragVars, showBubbleMenu, aiMode,
                    selectionRange, aiVars >>
    /\ Keep(detached)

-----------------------------------------------------------------------------
(* Deferred callbacks *)

\* setTimeout(updateActiveBlock, 0 | 50) fires
RunUpdateActiveBlock(t) ==
    /\ Idle
    /\ t \in timers
    /\ t.fn = "updateActiveBlock"
    /\ timers' = timers \ {t}
    /\ LET u == UpdateActiveBlock(sel, dom, t.drag)
       IN  /\ activeBlock' = u.ab
           /\ showSideControls' = u.side
    /\ NoEmit
    /\ lastOp' = "updateActiveBlock"
    /\ UNCHANGED << statVars, fontStyle >>
    /\ UNCHANGED gestures
    /\ UNCHANGED << dom, focused, sel, showBlockOptions, dragVars, menuVars, aiVars >>
    /\ Keep(detached)

\* the bubble menu after a selection check: [show, range]
BubbleAfterCheck(s, ai) ==
    IF s.kind = "block" /\ ~s.collapsed /\ TextOf(Deref(s.node)) # << >>
    THEN [show |-> TRUE, range |-> s.node]
    ELSE [show |-> IF ai = "none" THEN FALSE ELSE showBubbleMenu, range |-> selectionRange]

\* the animation frame requested by checkSelection fires
RunCheckSelection(t) ==
    /\ Idle
    /\ t \in timers
    /\ t.fn = "checkSelection"
    /\ timers' = timers \ {t}
    /\ LET u == UpdateActiveBlock(sel, dom, t.drag)
           b == BubbleAfterCheck(sel, t.ai)
       IN  /\ activeBlock' = u.ab
           /\ showSideControls' = u.side
           /\ showBubbleMenu' = IF u.threw THEN showBubbleMenu ELSE b.show
           /\ selectionRange' = IF u.threw THEN selectionRange ELSE b.range
    /\ NoEmit
    /\ lastOp' = "checkSelection"
    /\ UNCHANGED << statVars, fontStyle >>
    /\ UNCHANGED gestures
    /\ UNCHANGED << dom, focused, sel, showBlockOptions, dragVars, showMenu, aiMode, aiVars >>
    /\ Keep(detached)

\* classList.add / classList.remove of opacity-40 on one node, wherever it is
ClassAfter(n, v) ==
    IF v THEN Dimmed
    ELSE IF n.dim = Dimmed /\ n.tag \in ClassLess THEN Cleared
    ELSE IF n.dim = Dimmed THEN Plain
    ELSE n.dim

WithDim(nodes, id, v) ==
    [i \in 1..Len(nodes) |->
        IF nodes[i].id = id THEN [nodes[i] EXCEPT !.dim = ClassAfter(nodes[i], v)]
        ELSE nodes[i]]

SetWithDim(nodes, id, v) ==
    {IF n.id = id THEN [n EXCEPT !.dim = ClassAfter(n, v)] ELSE n : n \in nodes}

\* the animation frame requested by handleDragStart fires
RunAddOpacity(t) ==
    /\ Idle
    /\ t \in timers
    /\ t.fn = "addOpacity"
    /\ timers' = timers \ {t}
    /\ dom' = WithDim(dom, t.node, TRUE)
    /\ NoEmit
    /\ lastOp' = "addOpacity"
    /\ UNCHANGED << statVars, fontStyle >>
    /\ UNCHANGED gestures
    /\ UNCHANGED << focused, sel, sideVars, dragVars, menuVars, aiVars >>
    /\ Keep(SetWithDim(detached, t.node, TRUE))

-----------------------------------------------------------------------------
(* Block operations *)

\* click on the grip / on the backdrop of the block options
ToggleBlockOptions ==
    /\ Interactive
    /\ ~showMenu
    /\ SideControlsShown
    /\ showBlockOptions' = ~showBlockOptions
    /\ NoEmit
    /\ lastOp' = "ToggleBlockOptions"
    /\ UNCHANGED << statVars, fontStyle >>
    /\ Gesture
    /\ UNCHANGED << dom, focused, sel, activeBlock, showSideControls, dragVars, detached,
                    menuVars, timers, aiVars >>

\* a delete that takes the following siblings along
BlockActionResultTail(d, ab, action, fresh) ==
    LET i == IndexOf(d, ab.id)
    IN  CASE action = "delete" -> IF i = 0 THEN d ELSE SubSeq(d, 1, i - 1)
          [] action = "duplicate" ->
                IF i = 0 THEN Append(d, [ab EXCEPT !.id = fresh])
                ELSE InsertAt(d, i + 1, [ab EXCEPT !.id = fresh])
          [] action = "up" ->
                IF i > 1 THEN [d EXCEPT ![i - 1] = d[i], ![i] = d[i - 1]] ELSE d
          [] action = "down" ->
                IF i > 0 /\ i < Len(d) THEN [d EXCEPT ![i + 1] = d[i], ![i] = d[i + 1]] ELSE d

\* a move that wraps around at the ends of the document
BlockActionResultWrap(d, ab, action, fresh) ==
    LET i == IndexOf(d, ab.id)
    IN  CASE action = "delete" -> Without(d, ab.id)
          [] action = "duplicate" ->
                IF i = 0 THEN Append(d, [ab EXCEPT !.id = fresh])
                ELSE InsertAt(d, i + 1, [ab EXCEPT !.id = fresh])
          [] action = "up" ->
                IF i > 1 THEN [d EXCEPT ![i - 1] = d[i], ![i] = d[i - 1]]
                ELSE IF i = 1 THEN Append(Tail(d), d[1]) ELSE d
          [] action = "down" ->
                IF i > 0 /\ i < Len(d) THEN [d EXCEPT ![i + 1] = d[i], ![i] = d[i + 1]]
                ELSE IF i > 0 THEN << d[i] >> \o SubSeq(d, 1, i - 1) ELSE d

\* the document after handleBlockAction(action) on block ab; fresh is the
\* identity of the clone
BlockActionResult(d, ab, action, fresh) ==
    LET i == IndexOf(d, ab.id)
    IN  CASE action = "delete" -> Without(d, ab.id)
          [] action = "duplicate" ->
                \* insertBefore(clone, activeBlock.nextSibling); null appends
                IF i = 0 THEN Append(d, [ab EXCEPT !.id = fresh])
                ELSE InsertAt(d, i + 1, [ab EXCEPT !.id = fresh])
          [] action = "up" ->
                IF i > 1 THEN [d EXCEPT ![i - 1] = d[i], ![i] = d[i - 1]] ELSE d
          [] action = "down" ->
                IF i > 0 /\ i < Len(d) THEN [d EXCEPT ![i + 1] = d[i], ![i] = d[i + 1]] ELSE d

BlockActions == {"delete", "duplicate", "up", "down"}

\* what handleBlockAction passes to onChange
BlockActionEmits(d) == << Serialize(d) >>

handleBlockAction(action) ==
    /\ Interactive
    /\ SideControlsShown
    /\ showBlockOptions
    /\ action = "duplicate" => Len(dom) < MaxBlocks
    /\ dom' = BlockActionResult(dom, Deref(activeBlock), action, NewId)
    /\ sel' = SelectionAfterRemoval(sel, Ids(dom) \ Ids(dom'))
    /\ emits' = BlockActionEmits(dom')
    /\ SetContent(emits'[Len(emits')])
    /\ showBlockOptions' = FALSE
    /\ timers' = timers \cup {UpdateTask}
    /\ lastOp' = action
    /\ UNCHANGED << statVars, fontStyle >>
    /\ Gesture
    /\ UNCHANGED << focused, activeBlock, showSideControls, dragVars, menuVars, aiVars >>
    /\ Keep(detached \cup Range(dom))

\* the document after handleAddNextLine on block ab
AddNextLineResult(d, ab, fresh) ==
    LET i == IndexOf(d, ab.id)
        newBlock == Node(fresh, "p", Plain, << "<br>" >>)
    IN  IF i = 0 \/ i = Len(d) THEN Append(d, newBlock) ELSE InsertAt(d, i + 1, newBlock)

\* what handleAddNextLine passes to onChange: it makes no call
AddNextLineEmits(d) == << >>

handleAddNextLine ==
    /\ Interactive
    /\ Uncovered
    /\ SideControlsShown
    /\ Len(dom) < MaxBlocks
    /\ dom' = AddNextLineResult(dom, Deref(activeBlock), NewId)
    /\ sel' = BlockSelection(NewId, TRUE)
    /\ LET u == UpdateActiveBlock(sel', dom', isDragging)
       IN  /\ activeBlock' = u.ab
           /\ showSideControls' = u.side
    /\ showMenu' = TRUE
    /\ emits' = AddNextLineEmits(dom')
    /\ IF emits' = << >> THEN UNCHANGED hostVars ELSE SetContent(emits'[Len(emits')])
    /\ lastOp' = "addNextLine"
    /\ UNCHANGED << statVars, fontStyle >>
    /\ Gesture
    /\ UNCHANGED << focused, showBlockOptions, dragVars, showBubbleMenu, aiMode,
                    selectionRange, timers, aiVars >>
    /\ Keep(detached)

-----------------------------------------------------------------------------
(* Drag and drop *)

handleDragStart ==
    /\ Idle
    /\ ~dragSession
    /\ ~showMenu
    /\ SideControlsShown
    /\ isDragging' = TRUE
    /\ dragSession' = TRUE
    /\ showBlockOptions' = FALSE
    /\ timers' = timers \cup {Task("addOpacity", activeBlock, isDragging, "none")}
    /\ NoEmit
    /\ lastOp' = "dragStart"
    /\ UNCHANGED << statVars, fontStyle >>
    /\ Gesture
    /\ UNCHANGED << dom, focused, sel, activeBlock, showSideControls, dropIndicator,
                    dropTargetInfo, detached, menuVars, aiVars >>

\* the heights, in px, that getBoundingClientRect reports for the children of
\* the root: a line of text, a picture
Heights == {40, 400}

\* the layouts of a document: one height for each child of the root, the first
\* child at the top of the viewport
Layouts(d) == [1..Len(d) -> Heights]

\* the layouts in which all children have the same height
EvenLayouts(d) == {[i \in 1..Len(d) |-> x] : x \in Heights}

\* the values of e.clientY
PointerYs == {0, 50, 90, 240, 640}

\* rect.top of child i
RECURSIVE Top(_, _)
Top(h, i) == IF i = 1 THEN 0 ELSE Top(h, i - 1) + h[i - 1]

\* rect.top + rect.height / 2 of child i
Centre(h, i) == Top(h, i) + h[i] \div 2

\* the largest distance, in px, is below this
DropThreshold == 150

\* a scan that does not leave out the active block
SkippedNever(n, ab) == n.tag = "#text"

\* the nodes the scan passes over: editorRef.current.children holds elements
\* only, and the callback returns at once for the active block
Skipped(n, ab) == n.tag = "#text" \/ n.id = ab

\* children.forEach(...): closest (an index, 0 for null) and minDiff after the
\* children from i on have been visited
RECURSIVE ScanFrom(_, _, _, _, _, _)
ScanFrom(d, h, ab, y, i, best) ==
    IF i > Len(d) THEN best
    ELSE LET diff == Abs(y - Centre(h, i))
             next == IF /\ ~Skipped(d[i], ab)
                        /\ best.closest = 0 \/ diff < best.minDiff
                        /\ diff < DropThreshold
                     THEN [closest |-> i, minDiff |-> diff]
                     ELSE best
         IN  ScanFrom(d, h, ab, y, i + 1, next)

\* what handleDragOver passes to setDropTargetInfo for layout h and pointer y
DragOverResult(d, ab, h, y) ==
    LET c == ScanFrom(d, h, ab, y, 1, [closest |-> 0, minDiff |-> 0]).closest
    IN  IF c # 0
        THEN [el |-> d[c].id, pos |-> IF y < Centre(h, c) THEN "before" ELSE "after"]
        ELSE NoTarget

\* dragover inside the editor while dragging
handleDragOver(h, y) ==
    /\ Idle
    /\ dragSession
    /\ isDragging
    /\ activeBlock # NoNode
    /\ h \in Layouts(dom)
    /\ dropTargetInfo' = DragOverResult(dom, activeBlock, h, y)
    /\ dropIndicator' = (dropTargetInfo'.el # NoNode)
    /\ NoEmit
    /\ lastOp' = "dragOver"
    /\ UNCHANGED << statVars, fontStyle >>
    /\ UNCHANGED gestures
    /\ UNCHANGED << dom, focused, sel, sideVars, isDragging, dragSession, menuVars,
                    timers, aiVars >>
    /\ Keep(detached)

\* a reinsertion that ignores the computed side
DropResultAlwaysAfter(d, src, target, pos) ==
    LET base == Without(d, src.id)
        i == IndexOf(base, target)
    IN  IF target = src.id
        THEN IF src.id \in Ids(d) THEN d ELSE Append(d, src)
        ELSE IF i = 0 THEN Append(base, src)
        ELSE InsertAt(base, i + 1, src)

\* insertBefore(src, target) / insertBefore(src, target.nextSibling)
DropResult(d, src, target, pos) ==
    LET base == Without(d, src.id)
        i == IndexOf(base, target)
    IN  IF target = src.id
        THEN IF src.id \in Ids(d) THEN d ELSE Append(d, src)
        ELSE IF pos = "before" THEN InsertAt(base, i, src)
        ELSE IF i = 0 THEN Append(base, src)
        ELSE InsertAt(base, i + 1, src)

\* insertBefore throws when its reference node is not a child of the root
DropThrows(d, target, pos) == pos = "before" /\ target \notin Ids(d)

\* what handleDrop passes to onChange after the move
DropEmits(d) == << Serialize(d) >>

\* a guard placed after the emission
DropWithoutTargetEmitsAnyway(d) == << Serialize(d) >>

\* what handleDrop passes to onChange when its guard returns early: it makes
\* no call
DropWithoutTargetEmits(d) == << >>

\* a drop on the editor, of the dragged block or of anything else
handleDrop ==
    /\ Idle
    /\ lastOp' = "drop"
    /\ UNCHANGED << statVars, fontStyle >>
    /\ UNCHANGED gestures
    /\ UNCHANGED << focused, sel, sideVars, dragSession, menuVars, aiVars >>
    /\ IF ~isDragging \/ activeBlock = NoNode \/ dropTargetInfo.el = NoNode
       THEN /\ isDragging' = FALSE
            /\ dropIndicator' = FALSE
            /\ dropTargetInfo' = NoTarget
            /\ dom' = WithDim(dom, activeBlock, FALSE)
            /\ emits' = DropWithoutTargetEmits(dom')
            /\ IF emits' = << >> THEN UNCHANGED hostVars
               ELSE SetContent(emits'[Len(emits')])
            /\ UNCHANGED timers
            /\ Keep(SetWithDim(detached, activeBlock, FALSE))
       ELSE IF DropThrows(dom, dropTargetInfo.el, dropTargetInfo.pos)
       THEN /\ NoEmit
            /\ UNCHANGED << dom, isDragging, dropIndicator, dropTargetInfo, timers, detached >>
       ELSE LET moved == DropResult(dom, Deref(activeBlock), dropTargetInfo.el,
                                    dropTargetInfo.pos)
            IN  /\ Len(moved) <= MaxBlocks
                /\ emits' = DropEmits(moved)
                /\ SetContent(emits'[Len(emits')])
                /\ dom' = WithDim(moved, activeBlock, FALSE)
                /\ isDragging' = FALSE
                /\ dropIndicator' = FALSE
                /\ dropTargetInfo' = NoTarget
                /\ timers' = timers \cup {UpdateTask}
                /\ Keep(detached)

\* the native dragend; React delivers it while the grip is still mounted
handleDragEnd ==
    /\ Idle
    /\ dragSession
    /\ dragSession' = FALSE
    /\ NoEmit
    /\ lastOp' = "dragEnd"
    /\ UNCHANGED << statVars, fontStyle >>
    /\ UNCHANGED gestures
    /\ UNCHANGED << focused, sel, sideVars, menuVars, timers, aiVars >>
    /\ IF SideControlsShown
       THEN /\ isDragging' = FALSE
            /\ dropIndicator' = FALSE
            /\ dropTargetInfo' = NoTarget
            /\ dom' = WithDim(dom, activeBlock, FALSE)
            /\ Keep(SetWithDim(detached, activeBlock, FALSE))
       ELSE UNCHANGED << isDragging, dropIndicator, dropTargetInfo, dom, detached >>

-----------------------------------------------------------------------------
(* Slash menu, insertHtml *)

\* click on the backdrop of the slash menu
CloseMenu ==
    /\ Interactive
    /\ showMenu
    /\ showMenu' = FALSE
    /\ NoEmit
    /\ lastOp' = "closeMenu"
    /\ UNCHANGED << statVars, fontStyle >>
    /\ Gesture
    /\ UNCHANGED << dom, focused, sel, sideVars, dragVars, detached, showBubbleMenu, aiMode,
                    selectionRange, timers, aiVars >>

\* textContent of one child of the root
NodeText(n) ==
    CASE n.tag \in TextTags \cup {"#text"} -> TextOf(n)
      [] n.tag = "loading" -> << "Generating" >>
      [] n.tag = "error" -> << "Failed" >>
      [] OTHER -> << >>

\* editorRef.current.textContent
RECURSIVE DocText(_)
DocText(d) == IF d = << >> THEN << >> ELSE NodeText(Head(d)) \o DocText(Tail(d))

\* text after execCommand('delete') of its last character
WithoutLast(text) ==
    IF Len(text) = 1 THEN << "<br>" >> ELSE SubSeq(text, 1, Len(text) - 1)

\* insertHtml(html) for a fragment that is one block element of the given tag, on
\* document d and selection s.  pick and at resolve what the browser's insertHTML
\* leaves open: an empty paragraph holding the caret is replaced (pick) or kept,
\* and a caret in the root sits before child at + 1.  A caret inside the text
\* splits its paragraph around the inserted block.
\* Result: [dom, sel, threw]; threw is the IndexSizeError of Range.setStart/setEnd.
InsertHtmlResult(d, s, tag, fresh, pick, at) ==
    LET block == Node(fresh, tag, Plain, << >>)
        inEditor == s.kind \in {"block", "root"}
        \* a selection outside the editor is replaced by the end of the root
        rootAt == IF inEditor THEN at ELSE Len(d)
    IN  IF s.kind = "block"
        THEN LET i == IndexOf(d, s.node)
                 txt == TextOf(d[i])
                 \* the trailing "/" of the focus node, else the selected text, is deleted
                 afterDelete == IF EndsWithSlash(txt)
                                THEN [d EXCEPT ![i].text = WithoutLast(@)]
                                ELSE IF ~s.collapsed
                                     THEN [d EXCEPT ![i].text = << "<br>" >>]
                                     ELSE d
                 tail == IF EndsWithSlash(txt) \/ ~s.collapsed THEN 0 ELSE s.tail
                 rest == afterDelete[i].text
                 empty == rest \in {<< >>, << "<br>" >>}
             IN  IF pick /\ empty /\ afterDelete[i].tag = "p"
                 THEN [dom |-> [afterDelete EXCEPT ![i] = block],
                       sel |-> RootSelection, threw |-> FALSE]
                 ELSE IF empty \/ tail = 0
                 THEN [dom |-> InsertAt(afterDelete, i + 1, block),
                       sel |-> RootSelection, threw |-> FALSE]
                 ELSE IF tail = Len(rest)
                 THEN [dom |-> InsertAt(afterDelete, i, block),
                       sel |-> RootSelection, threw |-> FALSE]
                 ELSE LET head == [afterDelete[i] EXCEPT !.text = BeforeCaret(rest, tail)]
                          back == Node(FreshId(Ids(d) \cup Referenced, 2), afterDelete[i].tag,
                                       afterDelete[i].dim, AfterCaret(rest, tail))
                      IN  [dom |-> SubSeq(d, 1, i - 1) \o << head, block, back >>
                                        \o SubSeq(d, i + 1, Len(d)),
                           sel |-> RootSelection, threw |-> FALSE]
        ELSE LET txt == DocText(d)
                 len == StrLen(txt)
             IN  IF EndsWithSlash(txt)
                 THEN \* setStart(root, len - 1), setEnd(root, len): child offsets
                      IF len > Len(d)
                      THEN [dom |-> d, sel |-> RootSelection, threw |-> TRUE]
                      ELSE [dom |-> InsertAt(Without(d, d[len].id), len, block),
                            sel |-> RootSelection, threw |-> FALSE]
                 ELSE [dom |-> InsertAt(d, rootAt + 1, block),
                       sel |-> RootSelection, threw |-> FALSE]

\* document.execCommand('formatBlock', false, value): the block holding the
\* selection is replaced by a new element of that type with the same content
\* Result: [dom, sel]
FormatBlockResult(d, s, tag, fresh) ==
    LET i == IndexOf(d, s.node)
    IN  IF s.kind = "block" /\ i # 0 /\ d[i].tag \in TextTags \cup {"#text"} /\ d[i].tag # tag
        THEN [dom |-> [d EXCEPT ![i] = Node(fresh, tag, Plain, d[i].text)],
              sel |-> [s EXCEPT !.node = fresh]]
        ELSE [dom |-> d, sel |-> s]

\* the block types of the slash menu that run a native command
FormatValues == {"p", "h1"}

\* slash menu entries "Text", "Heading 1": execCommand('formatBlock', value)
execCommand(value) ==
    /\ Interactive
    /\ showMenu
    /\ LET r == FormatBlockResult(dom, sel, value, NewId)
       IN  /\ dom' = r.dom
           /\ sel' = r.sel
    /\ focused' = TRUE
    /\ Emit(Serialize(dom'))
    /\ showMenu' = FALSE
    /\ lastOp' = "execCommand"
    /\ UNCHANGED << statVars, fontStyle >>
    /\ Gesture
    /\ UNCHANGED << sideVars, dragVars, showBubbleMenu, aiMode, selectionRange, timers, aiVars >>
    /\ Keep(detached \cup Range(dom))

\* insertHtml(html) as a handler: the fragment is one block element of the given tag
insertHtml(tag, pick, at, op) ==
    /\ at \in 0..Len(dom)
    /\ LET r == InsertHtmlResult(dom, sel, tag, NewId, pick, at)
       IN  /\ Len(r.dom) <= MaxBlocks
           /\ focused' = TRUE
           /\ dom' = r.dom
           /\ sel' = IF r.threw THEN sel ELSE r.sel
           /\ IF r.threw THEN NoEmit ELSE Emit(Serialize(r.dom))
           /\ showMenu' = IF r.threw THEN showMenu ELSE FALSE
    /\ lastOp' = op
    /\ UNCHANGED << statVars, fontStyle >>
    /\ UNCHANGED << sideVars, dragVars, showBubbleMenu, aiMode, selectionRange, aiVars >>

\* slash menu entry "Divider" (as "Quote", "Callout", "Code Block"): insertHtml of
\* a fixed fragment
chooseFragment(pick, at) ==
    /\ Interactive
    /\ showMenu
    /\ insertHtml("hr", pick, at, "chooseFragment")
    /\ Gesture
    /\ UNCHANGED timers
    /\ Keep(detached \cup Range(dom))

\* FileReader.onload of handleImageUpload, once the file has been read
ReaderTask == Task("readerOnload", NoNode, isDragging, "none")

\* slash menu entry "Image" (as "Gallery"): the click on the hidden file input
\* opens the file picker; a chosen file is read, a cancelled picker has no event
chooseImage(picked) ==
    /\ Interactive
    /\ showMenu
    /\ timers' = IF picked THEN timers \cup {ReaderTask} ELSE timers
    /\ NoEmit
    /\ lastOp' = "chooseImage"
    /\ UNCHANGED << statVars, fontStyle >>
    /\ Gesture
    /\ UNCHANGED << dom, focused, sel, sideVars, dragVars, detached, menuVars, aiVars >>

\* reader.onload: insertHtml of the uploaded image
RunReaderOnload(t, pick, at) ==
    /\ Idle
    /\ t \in timers
    /\ t.fn = "readerOnload"
    /\ timers' = timers \ {t}
    /\ insertHtml("upload", pick, at, "readerOnload")
    /\ UNCHANGED gestures
    /\ Keep(detached \cup Range(dom))

\* what the host's sidebar passes to insertHtml: the text to insert between two
\* spaces
SidebarText == << " ", "a", " " >>

\* insertHtml(html) for a fragment that is text without markup, on document d and
\* selection s: inside a text block the text goes in at the caret; at a caret in
\* the root (where a selection outside the editor is replaced by the end of the
\* root) it becomes a text node that is a child of the root.
\* Result: [dom, sel, threw]
InsertTextResult(d, s, frag, fresh, at) ==
    IF s.kind = "block"
    THEN LET i == IndexOf(d, s.node)
             txt == TextOf(d[i])
             rest == IF EndsWithSlash(txt) THEN WithoutLast(d[i].text)
                     ELSE IF ~s.collapsed THEN << >>
                     ELSE d[i].text
             tail == IF EndsWithSlash(txt) \/ ~s.collapsed THEN 0 ELSE s.tail
             text == IF rest \in {<< >>, << "<br>" >>} THEN frag
                     ELSE BeforeCaret(rest, tail) \o frag \o AfterCaret(rest, tail)
         IN  [dom |-> [d EXCEPT ![i].text = text],
              sel |-> CaretSelection(s.node, IF rest \in {<< >>, << "<br>" >>} THEN 0 ELSE tail),
              threw |-> FALSE]
    ELSE LET txt == DocText(d)
             len == StrLen(txt)
             node == Node(fresh, "#text", Plain, frag)
         IN  IF EndsWithSlash(txt)
             THEN IF len > Len(d)
                  THEN [dom |-> d, sel |-> RootSelection, threw |-> TRUE]
                  ELSE [dom |-> InsertAt(Without(d, d[len].id), len, node),
                        sel |-> RootSelection, threw |-> FALSE]
             ELSE [dom |-> InsertAt(d, (IF s.kind = "root" THEN at ELSE Len(d)) + 1, node),
                   sel |-> RootSelection, threw |-> FALSE]

\* the host's handleSidebarInsert: richEditorRef.current.insertHtml(' text ').
\* The press on the sidebar button leaves the window's selection where it was.
handleSidebarInsert(at) ==
    /\ Interactive
    /\ at \in 0..Len(dom)
    /\ sel.kind = "block" => Deref(sel.node).tag \in TextTags \cup {"#text"}
    /\ LET r == InsertTextResult(dom, sel, SidebarText, NewId, at)
       IN  /\ Len(r.dom) <= MaxBlocks
           /\ focused' = TRUE
           /\ dom' = r.dom
           /\ sel' = IF r.threw THEN sel ELSE r.sel
           /\ IF r.threw THEN NoEmit ELSE Emit(Serialize(r.dom))
           /\ showMenu' = IF r.threw THEN showMenu ELSE FALSE
    /\ lastOp' = "sidebarInsert"
    /\ UNCHANGED << statVars, fontStyle >>
    /\ Gesture
    /\ UNCHANGED << sideVars, dragVars, showBubbleMenu, aiMode, selectionRange, timers, aiVars >>
    /\ Keep(detached \cup Range(dom))

\* the answers to prompt('Enter YouTube Video URL:')
VideoPrompts == {"cancelled", "invalid", "valid"}

\* slash menu entry "Video"
handleVideoEmbed(url, pick, at) ==
    /\ Interactive
    /\ showMenu
    /\ Gesture
    /\ UNCHANGED timers
    /\ IF url = "valid"
       THEN /\ insertHtml("video", pick, at, "videoEmbed")
            /\ Keep(detached \cup Range(dom))
       ELSE /\ showMenu' = FALSE
            /\ NoEmit
            /\ lastOp' = "videoEmbed"
            /\ UNCHANGED << statVars, fontStyle >>
            /\ UNCHANGED << dom, focused, sel, sideVars, dragVars, detached, showBubbleMenu,
                            aiMode, selectionRange, aiVars >>

-----------------------------------------------------------------------------
(* AI image *)

\* the element querySelector('#' + id) finds: the first one carrying the id of
\* the insertion in progress (the messages of earlier failures carry other ids)
Placeholder(d) ==
    IF \E i \in 1..Len(d) : d[i].tag = "loading"
    THEN d[CHOOSE i \in 1..Len(d) :
                /\ d[i].tag = "loading"
                /\ \A j \in 1..(i - 1) : d[j].tag # "loading"].id
    ELSE NoNode

\* slash menu entry "AI Image": prompt(), insertHtml(placeholder), generateImage
handleGenerateAiImage(prompted, pick, at) ==
    /\ Interactive
    /\ showMenu
    /\ imgReq = "idle"
    /\ Len(dom) < MaxBlocks
    /\ at \in 0..Len(dom)
    /\ lastOp' = "generateAiImage"
    /\ UNCHANGED << statVars, fontStyle >>
    /\ Gesture
    /\ UNCHANGED << sideVars, dragVars, showBubbleMenu, aiMode, selectionRange, timers, aiReq >>
    /\ IF ~prompted
       THEN /\ showMenu' = FALSE
            /\ NoEmit
            /\ UNCHANGED << dom, focused, sel, imgReq, imgCalls, detached >>
       ELSE LET r == InsertHtmlResult(dom, sel, "loading", NewId, pick, at)
            IN  /\ Len(r.dom) <= MaxBlocks
                /\ focused' = TRUE
                /\ dom' = r.dom
                /\ sel' = IF r.threw THEN sel ELSE r.sel
                /\ IF r.threw THEN NoEmit ELSE Emit(Serialize(r.dom))
                /\ showMenu' = IF r.threw THEN showMenu ELSE FALSE
                /\ imgReq' = IF r.threw THEN "idle" ELSE "first"
                /\ imgCalls' = IF r.threw THEN 0 ELSE 1
                /\ Keep(detached \cup Range(dom))

\* what doGenerate passes to onChange after it replaced the placeholder
ImageEmits(d) == << Serialize(d) >>

\* generateImage resolved: doGenerate replaces the placeholder, if it is there
ImageResolves ==
    /\ Idle
    /\ imgReq \in {"first", "retry"}
    /\ imgReq' = "idle"
    /\ imgCalls' = 0
    /\ lastOp' = "imageResolves"
    /\ UNCHANGED << statVars, fontStyle >>
    /\ UNCHANGED gestures
    /\ UNCHANGED << focused, sideVars, dragVars, menuVars, timers, aiReq >>
    /\ LET ph == Placeholder(dom)
       IN  IF ph # NoNode
           THEN /\ dom' = [dom EXCEPT ![IndexOf(dom, ph)] = Node(NewId, "img", Plain, << >>)]
                /\ sel' = SelectionAfterRemoval(sel, {ph})
                /\ emits' = ImageEmits(dom')
                /\ SetContent(emits'[Len(emits')])
           ELSE /\ NoEmit
                /\ UNCHANGED << dom, sel >>
    /\ Keep(detached \cup Range(dom))

\* what the catch block passes to onChange after it wrote the failure message:
\* it makes no call
ImageFailureEmits(d) == << >>

\* placeholder.innerHTML = ...; placeholder.className = ...
FailureShown(d) ==
    LET ph == Placeholder(d)
    IN  IF ph = NoNode THEN d
        ELSE [d EXCEPT ![IndexOf(d, ph)] = Node(ph, "error", Plain, << >>)]

\* a catch block that asks for authorization after every failure that names it
RetryOfferedAlways(req, authorization) == authorization

\* the catch block awaits openSelectKey and runs doGenerate again: for the
\* failure of the first call, when its message asks for authorization and
\* window.aistudio is there (the failure of the second call is caught by the inner,
\* empty catch)
RetryOffered(req, authorization) == req = "first" /\ authorization

\* generateImage rejected.  A failure that is retried awaits openSelectKey; every
\* other failure ends in the catch block's message.
ImageFails(authorization) ==
    /\ Idle
    /\ imgReq \in {"first", "retry"}
    /\ lastOp' = "imageFails"
    /\ UNCHANGED << statVars, fontStyle >>
    /\ UNCHANGED gestures
    /\ UNCHANGED << focused, sel, sideVars, dragVars, detached, menuVars, timers, aiReq >>
    /\ IF RetryOffered(imgReq, authorization)
       THEN /\ imgReq' = "auth"
            /\ UNCHANGED imgCalls
            /\ NoEmit
            /\ UNCHANGED dom
       ELSE /\ imgReq' = "idle"
            /\ imgCalls' = 0
            /\ dom' = FailureShown(dom)
            /\ emits' = ImageFailureEmits(dom')
            /\ IF emits' = << >> THEN UNCHANGED hostVars ELSE SetContent(emits'[Len(emits')])

\* openSelectKey settled: doGenerate runs again, or the rejection leaves the handler
AuthorizationSettles(ok) ==
    /\ Idle
    /\ imgReq = "auth"
    /\ imgReq' = IF ok THEN "retry" ELSE "idle"
    /\ imgCalls' = IF ok THEN imgCalls + 1 ELSE 0
    /\ NoEmit
    /\ lastOp' = "authorizationSettles"
    /\ UNCHANGED << statVars, fontStyle >>
    /\ UNCHANGED gestures
    /\ UNCHANGED << dom, focused, sel, sideVars, dragVars, detached, menuVars, timers, aiReq >>

-----------------------------------------------------------------------------
(* Bubble menu, AI rewrite *)

\* "Ask AI...": the prompt input takes the focus (autoFocus); the browser keeps
\* the selection or drops it
AskAi(keepsSelection) ==
    /\ Interactive
    /\ showBubbleMenu
    /\ aiMode = "none"
    /\ aiMode' = "prompt"
    /\ focused' = FALSE
    /\ sel' = IF keepsSelection THEN sel ELSE NoSelection
    /\ NoEmit
    /\ lastOp' = "askAi"
    /\ UNCHANGED << statVars, fontStyle >>
    /\ Gesture
    /\ UNCHANGED << dom, sideVars, dragVars, showMenu, showBubbleMenu, selectionRange,
                    timers, aiVars >>
    /\ Keep(detached)

\* a bubble menu that offers the AI actions in every mode
AiActionOfferedAlways(mode) == TRUE

\* the bubble menu renders the controls that call handleAiAction in the format
\* and prompt modes; in the loading mode it renders the spinner only
AiActionOffered(mode) == mode \in {"none", "prompt"}

\* Improve / Shorten (format mode), Enter or the arrow button (prompt mode)
handleAiAction ==
    /\ Interactive
    /\ showBubbleMenu
    /\ AiActionOffered(aiMode)
    /\ selectionRange # NoNode
    /\ aiMode' = "loading"
    /\ aiReq' = Append(aiReq, selectionRange)
    /\ NoEmit
    /\ lastOp' = "aiAction"
    /\ UNCHANGED << statVars, fontStyle >>
    /\ Gesture
    /\ UNCHANGED << dom, focused, sel, sideVars, dragVars, detached, showMenu, showBubbleMenu,
                    selectionRange, timers, imgReq, imgCalls >>

\* text the rewrite service returns
Improved == << "b" >>

\* handleAiImprove after improveContent resolved: the current selection's range
\* has its contents deleted and the returned content inserted
AiInsertResult(d, s, improved, fresh) ==
    CASE s.kind = "block" ->
            LET i == IndexOf(d, s.node)
            IN  [d EXCEPT ![i].text =
                    IF s.collapsed
                    THEN BeforeCaret(@, s.tail) \o improved \o AfterCaret(@, s.tail)
                    ELSE improved]
      [] s.kind = "root" -> << Node(fresh, "#text", Plain, improved) >> \o d
      [] OTHER -> d

\* what handleAiImprove and handleAiAction pass to onChange: they make no call
AiRewriteEmits(d) == << >>

\* a handleAiAction whose await ends with the rejection of improveContent
ModeAfterSettleUnlessRejected(ok) == IF ok THEN "none" ELSE "loading"

\* the AI mode after the await of handleAiAction: the promise of handleAiImprove
\* resolves after a success and after a failure
ModeAfterSettle(ok) == "none"

\* improveContent settled; handleAiImprove resolves and handleAiAction continues
AiSettles(ok) ==
    /\ Idle
    /\ aiReq # << >>
    /\ ok /\ sel.kind = "root" => Len(dom) < MaxBlocks
    /\ dom' = IF ok THEN AiInsertResult(dom, sel, Improved, NewId) ELSE dom
    /\ sel' = IF ok /\ sel.kind = "block"
              THEN CaretSelection(sel.node, IF sel.collapsed THEN sel.tail ELSE 0)
              ELSE sel
    /\ emits' = IF ok THEN AiRewriteEmits(dom') ELSE << >>
    /\ IF emits' = << >> THEN UNCHANGED hostVars ELSE SetContent(emits'[Len(emits')])
    /\ aiMode' = ModeAfterSettle(ok)
    /\ showBubbleMenu' = FALSE
    /\ aiReq' = Tail(aiReq)
    /\ lastOp' = IF ok THEN "aiResolves" ELSE "aiFails"
    /\ UNCHANGED << statVars, fontStyle >>
    /\ UNCHANGED gestures
    /\ UNCHANGED << focused, sideVars, dragVars, showMenu, selectionRange, timers, imgReq, imgCalls >>
    /\ Keep(detached)

-----------------------------------------------------------------------------
(* Inline code *)

\* the position of the start tag of the code element around token position at
\* of a text (at tokens lie in front of the position), 0 if there is none
CodeAround(text, at) ==
    LET opens == {i \in 1..at : /\ text[i] = CodeOpen
                                /\ \A j \in (i + 1)..at : text[j] # CodeClose}
    IN  IF opens = {} THEN 0 ELSE CHOOSE i \in opens : \A j \in opens : j <= i

\* the position of the first end tag of a code element behind position from
CodeEnd(text, from) ==
    CHOOSE j \in (from + 1)..Len(text) :
        /\ text[j] = CodeClose
        /\ \A k \in (from + 1)..(j - 1) : text[k] # CodeClose

\* toggleInlineCode on document d and selection s.  inside resolves what
\* insertHTML leaves open: the caret ends inside the inserted element or behind it.
\* Result: [dom, sel, emits, wrapped]
ToggleCodeResult(d, s, inside) ==
    LET i == IndexOf(d, s.node)
        inBlock == s.kind = "block" /\ i # 0
        text == IF inBlock THEN d[i].text ELSE << >>
        \* the anchor: the caret, or the start of a range over the text
        anchor == IF s.collapsed THEN Len(text) - s.tail ELSE 1
        open == IF inBlock /\ text # << >> THEN CodeAround(text, anchor) ELSE 0
    IN  IF s.kind = "none"
        THEN [dom |-> d, sel |-> s, emits |-> << >>, wrapped |-> FALSE]
        ELSE IF open # 0
        THEN \* el.replaceWith(text node): the selection collapses in front of it
             LET close == CodeEnd(text, open)
                 plain == SubSeq(text, 1, open - 1) \o SubSeq(text, open + 1, close - 1)
                              \o SubSeq(text, close + 1, Len(text))
                 after == [d EXCEPT ![i].text = plain]
             IN  [dom |-> after,
                  sel |-> CaretSelection(s.node, Len(plain) - (open - 1)),
                  emits |-> << Serialize(after), Serialize(after) >>,
                  wrapped |-> FALSE]
        ELSE IF inBlock /\ ~s.collapsed /\ TextOf(d[i]) # << >>
        THEN \* insertHTML of <code>selection.toString()</code> over the range
             LET after == [d EXCEPT ![i].text = << CodeOpen >> \o TextOf(d[i]) \o << CodeClose >>]
             IN  [dom |-> after,
                  sel |-> CaretSelection(s.node, IF inside THEN 1 ELSE 0),
                  emits |-> << Serialize(after) >>,
                  wrapped |-> TRUE]
        ELSE [dom |-> d, sel |-> s, emits |-> << Serialize(d) >>, wrapped |-> FALSE]

\* Ctrl/Cmd+E in the editor (key), or the code button of the bubble menu
toggleInlineCode(key, inside) ==
    /\ Interactive
    /\ IF key THEN focused ELSE showBubbleMenu /\ aiMode = "none"
    /\ LET r == ToggleCodeResult(dom, sel, inside)
       IN  /\ dom' = r.dom
           /\ sel' = r.sel
           /\ emits' = r.emits
           /\ IF r.emits = << >> THEN UNCHANGED hostVars
              ELSE SetContent(r.emits[Len(r.emits)])
           /\ showBubbleMenu' = IF r.wrapped THEN FALSE ELSE showBubbleMenu
    /\ timers' = IF key THEN timers \cup {CheckSelectionTask} ELSE timers
    /\ lastOp' = "toggleInlineCode"
    /\ UNCHANGED << statVars, fontStyle >>
    /\ Gesture
    /\ UNCHANGED << focused, sideVars, dragVars, showMenu, aiMode, selectionRange, aiVars >>
    /\ Keep(detached)

-----------------------------------------------------------------------------
(* Bubble menu, format buttons *)

\* a format button of the bubble menu: execCommand(command).  On a selection
\* that covers the text of a block, document.execCommand puts the text into the
\* command's inline element, or takes it out when it is in one already; a caret
\* changes nothing in the document.  Commands other than the colours and the
\* alignments close the slash menu.
formatSelection(command) ==
    /\ Interactive
    /\ showBubbleMenu
    /\ aiMode = "none"
    /\ LET i == IndexOf(dom, sel.node)
       IN  IF sel.kind = "block" /\ ~sel.collapsed /\ i # 0 /\ dom[i].tag \in TextTags
           THEN LET text == dom[i].text
                    marked == /\ Len(text) >= 2
                              /\ text[1] = MarkOpen(command)
                              /\ text[Len(text)] = MarkClose(command)
                IN  dom' = [dom EXCEPT ![i].text =
                        IF marked THEN SubSeq(text, 2, Len(text) - 1)
                        ELSE << MarkOpen(command) >> \o text \o << MarkClose(command) >>]
           ELSE dom' = dom
    /\ focused' = TRUE
    /\ Emit(Serialize(dom'))
    /\ showMenu' = IF command \notin {"hiliteColor", "backColor", "justifyLeft",
                                      "justifyCenter", "justifyRight"}
                   THEN FALSE
                   ELSE showMenu
    /\ lastOp' = "formatSelection"
    /\ UNCHANGED << statVars, fontStyle >>
    /\ Gesture
    /\ UNCHANGED << sel, sideVars, dragVars, detached, showBubbleMenu, aiMode, selectionRange,
                    timers, aiVars >>

\* setFontStyle(prev => ...) of the font button
FontAfter(prev) ==
    IF prev = "sans" THEN "serif" ELSE IF prev = "serif" THEN "mono" ELSE "sans"

\* the font button of the bubble menu
cycleFont ==
    /\ Interactive
    /\ showBubbleMenu
    /\ aiMode = "none"
    /\ fontStyle' = FontAfter(fontStyle)
    /\ NoEmit
    /\ lastOp' = "cycleFont"
    /\ UNCHANGED statVars
    /\ Gesture
    /\ UNCHANGED << dom, focused, sel, sideVars, dragVars, detached, menuVars, timers, aiVars >>

-----------------------------------------------------------------------------
(* Specification *)

Init ==
    /\ gestures = 0
    /\ dom = << >>
    /\ content = << >>
    /\ syncPending = FALSE
    /\ focused = FALSE
    /\ sel = NoSelection
    /\ activeBlock = NoNode
    /\ showSideControls = FALSE
    /\ showBlockOptions = FALSE
    /\ isDragging = FALSE
    /\ dragSession = FALSE
    /\ detached = {}
    /\ dropIndicator = FALSE
    /\ dropTargetInfo = NoTarget
    /\ showMenu = FALSE
    /\ showBubbleMenu = FALSE
    /\ aiMode = "none"
    /\ selectionRange = NoNode
    /\ timers = {}
    /\ aiReq = << >>
    /\ imgReq = "idle"
    /\ imgCalls = 0
    /\ fontStyle = "sans"
    /\ wordCount = 0
    /\ readingTime = 0
    /\ lastOp = "mount"
    /\ emits = << >>

Next ==
    \/ \E html \in ExternalContents : HostSetContent(html)
    \/ Reconcile
    \/ \E id \in Ids(dom), collapsed \in BOOLEAN : ClickBlock(id, collapsed)
    \/ ClickRoot
    \/ \E id \in Ids(dom) : ClickInside(id)
    \/ \E id \in Ids(dom) : ClickCode(id)
    \/ SelectOutside
    \/ Blur
    \/ \E c \in Chars : TypeChar(c)
    \/ \E t \in timers : RunUpdateActiveBlock(t)
    \/ \E t \in timers : RunCheckSelection(t)
    \/ \E t \in timers : RunAddOpacity(t)
    \/ ToggleBlockOptions
    \/ \E action \in BlockActions : handleBlockAction(action)
    \/ handleAddNextLine
    \/ handleDragStart
    \/ \E h \in Layouts(dom), y \in PointerYs : handleDragOver(h, y)
    \/ handleDrop
    \/ handleDragEnd
    \/ CloseMenu
    \/ \E value \in FormatValues : execCommand(value)
    \/ \E pick \in BOOLEAN, at \in 0..MaxBlocks : chooseFragment(pick, at)
    \/ \E picked \in BOOLEAN : chooseImage(picked)
    \/ \E t \in timers, pick \in BOOLEAN, at \in 0..MaxBlocks : RunReaderOnload(t, pick, at)
    \/ \E url \in VideoPrompts, pick \in BOOLEAN, at \in 0..MaxBlocks :
            handleVideoEmbed(url, pick, at)
    \/ \E prompted \in BOOLEAN, pick \in BOOLEAN, at \in 0..MaxBlocks :
            handleGenerateAiImage(prompted, pick, at)
    \/ ImageResolves
    \/ \E authorization \in BOOLEAN : ImageFails(authorization)
    \/ \E ok \in BOOLEAN : AuthorizationSettles(ok)
    \/ \E keeps \in BOOLEAN : AskAi(keeps)
    \/ handleAiAction
    \/ \E ok \in BOOLEAN : AiSettles(ok)
    \/ \E key \in BOOLEAN, inside \in BOOLEAN : toggleInlineCode(key, inside)
    \/ \E at \in 0..MaxBlocks : handleSidebarInsert(at)
    \/ \E command \in BubbleCommands : formatSelection(command)
    \/ cycleFont

Spec == Init /\ [][Next]_vars

\* the content synchronizer with pointer, focus and typing
NextSync ==
    \/ \E html \in ExternalContents : HostSetContent(html)
    \/ Reconcile
    \/ \E id \in Ids(dom) : ClickBlock(id, TRUE)
    \/ ClickRoot
    \/ Blur
    \/ \E c \in Chars : TypeChar(c)
    \/ \E t \in timers : RunCheckSelection(t)

SpecSync == Init /\ [][NextSync]_vars

\* a post the host loads into the editor before blocks are moved
StoredPost == << "<p>", "a", "</p>", "<p>", "/", "</p>", "<hr>" >>

\* the block operations of the side controls
NextBlocks ==
    \/ HostSetContent(StoredPost)
    \/ Reconcile
    \/ \E id \in Ids(dom) : ClickBlock(id, TRUE)
    \/ \E t \in timers : RunUpdateActiveBlock(t)
    \/ \E t \in timers : RunCheckSelection(t)
    \/ ToggleBlockOptions
    \/ \E action \in BlockActions : handleBlockAction(action)
    \/ handleAddNextLine

SpecBlocks == Init /\ [][NextBlocks]_vars

\* drag-and-drop reordering
NextDrag ==
    \/ HostSetContent(StoredPost)
    \/ Reconcile
    \/ \E id \in Ids(dom) : ClickBlock(id, TRUE)
    \/ \E t \in timers : RunUpdateActiveBlock(t)
    \/ \E t \in timers : RunCheckSelection(t)
    \/ \E t \in timers : RunAddOpacity(t)
    \/ handleDragStart
    \/ Blur
    \/ \E h \in EvenLayouts(dom), y \in PointerYs : handleDragOver(h, y)
    \/ handleDrop
    \/ handleDragEnd

SpecDrag == Init /\ [][NextDrag]_vars

\* a post with text directly under the root between two blocks
MixedPost == << "<p>", "a", "</p>", "a", "<hr>" >>

\* the drop target under the pointer
NextOver ==
    \/ \E html \in {StoredPost, MixedPost} : HostSetContent(html)
    \/ Reconcile
    \/ \E id \in Ids(dom) : ClickBlock(id, TRUE)
    \/ \E t \in timers : RunCheckSelection(t)
    \/ handleDragStart
    \/ \E h \in Layouts(dom), y \in PointerYs : handleDragOver(h, y)
    \/ handleDragEnd

SpecOver == Init /\ [][NextOver]_vars

\* the asynchronous AI operations
NextAi ==
    \/ HostSetContent(<< "<p>", "a", "</p>" >>)
    \/ Reconcile
    \/ \E id \in Ids(dom), collapsed \in BOOLEAN : ClickBlock(id, collapsed)
    \/ TypeChar("/")
    \/ \E t \in timers : RunCheckSelection(t)
    \/ \E prompted \in BOOLEAN, pick \in BOOLEAN, at \in 0..MaxBlocks :
            handleGenerateAiImage(prompted, pick, at)
    \/ ImageResolves
    \/ \E authorization \in BOOLEAN : ImageFails(authorization)
    \/ \E ok \in BOOLEAN : AuthorizationSettles(ok)
    \/ \E keeps \in BOOLEAN : AskAi(keeps)
    \/ handleAiAction
    \/ \E ok \in BOOLEAN : AiSettles(ok)

SpecAi == Init /\ [][NextAi]_vars

\* a post with text and a slash in it
SlashPost == << "<p>", "a", "</p>", "<p>", "/", "</p>" >>

\* a post whose first line was typed into the empty editor: text directly under
\* the root, followed by a block
LoosePost == << "a", "<p>", "/", "</p>" >>

\* typing and the slash menu
NextSlash ==
    \/ \E html \in {SlashPost, LoosePost} : HostSetContent(html)
    \/ Reconcile
    \/ \E id \in Ids(dom), collapsed \in BOOLEAN : ClickBlock(id, collapsed)
    \/ \E id \in Ids(dom) : ClickInside(id)
    \/ ClickRoot
    \/ \E c \in Chars : TypeChar(c)
    \/ \E t \in timers : RunCheckSelection(t)
    \/ CloseMenu
    \/ \E value \in FormatValues : execCommand(value)
    \/ \E pick \in BOOLEAN, at \in 0..MaxBlocks : chooseFragment(pick, at)
    \/ \E picked \in BOOLEAN : chooseImage(picked)
    \/ \E t \in timers, pick \in BOOLEAN, at \in 0..MaxBlocks : RunReaderOnload(t, pick, at)
    \/ \E url \in VideoPrompts, pick \in BOOLEAN, at \in 0..MaxBlocks :
            handleVideoEmbed(url, pick, at)
    \/ \E prompted \in BOOLEAN, pick \in BOOLEAN, at \in 0..MaxBlocks :
            handleGenerateAiImage(prompted, pick, at)
    \/ ImageResolves

SpecSlash == Init /\ [][NextSlash]_vars

\* a post with an inline code element, and one without
CodePost == << "<p>", CodeOpen, "a", CodeClose, "</p>" >>
PlainPost == << "<p>", "a", "</p>" >>

\* the inline code toggle
NextCode ==
    \/ \E html \in {CodePost, PlainPost} : HostSetContent(html)
    \/ Reconcile
    \/ \E id \in Ids(dom), collapsed \in BOOLEAN : ClickBlock(id, collapsed)
    \/ \E id \in Ids(dom) : ClickCode(id)
    \/ \E t \in timers : RunCheckSelection(t)
    \/ \E key \in BOOLEAN, inside \in BOOLEAN : toggleInlineCode(key, inside)

SpecCode == Init /\ [][NextCode]_vars

\* the block menu while the host replaces the post
NextReplace ==
    \/ \E html \in {StoredPost, PlainPost} : HostSetContent(html)
    \/ Reconcile
    \/ \E id \in Ids(dom) : ClickBlock(id, TRUE)
    \/ Blur
    \/ \E t \in timers : RunUpdateActiveBlock(t)
    \/ \E t \in timers : RunCheckSelection(t)
    \/ ToggleBlockOptions
    \/ \E action \in BlockActions : handleBlockAction(action)
    \/ handleAddNextLine

SpecReplace == Init /\ [][NextReplace]_vars

\* the bubble menu with the inline-code shortcut and the AI rewrite
NextBubble ==
    \/ HostSetContent(PlainPost)
    \/ Reconcile
    \/ \E id \in Ids(dom), collapsed \in BOOLEAN : ClickBlock(id, collapsed)
    \/ SelectOutside
    \/ \E t \in timers : RunCheckSelection(t)
    \/ \E keeps \in BOOLEAN : AskAi(keeps)
    \/ handleAiAction
    \/ \E ok \in BOOLEAN : AiSettles(ok)
    \/ \E key \in BOOLEAN, inside \in BOOLEAN : toggleInlineCode(key, inside)
    \/ \E command \in BubbleCommands : formatSelection(command)
    \/ cycleFont

SpecBubble == Init /\ [][NextBubble]_vars

\* drag-and-drop reordering of a post the host replaces
NextMove ==
    \/ HostSetContent(SlashPost)
    \/ Reconcile
    \/ \E id \in Ids(dom) : ClickBlock(id, TRUE)
    \/ Blur
    \/ \E t \in timers : RunUpdateActiveBlock(t)
    \/ \E t \in timers : RunCheckSelection(t)
    \/ handleDragStart
    \/ \E t \in timers : RunAddOpacity(t)
    \/ \E h \in EvenLayouts(dom), y \in PointerYs : handleDragOver(h, y)
    \/ handleDrop
    \/ handleDragEnd

SpecMove == Init /\ [][NextMove]_vars

\* a post whose text ends with a slash
TrailingSlashPost == << "<p>", "a", "/", "</p>" >>

\* the host's sidebar with pointer and focus
NextInsert ==
    \/ \E html \in {PlainPost, SlashPost, TrailingSlashPost} : HostSetContent(html)
    \/ Reconcile
    \/ \E id \in Ids(dom), collapsed \in BOOLEAN : ClickBlock(id, collapsed)
    \/ SelectOutside
    \/ \E t \in timers : RunCheckSelection(t)
    \/ \E at \in 0..MaxBlocks : handleSidebarInsert(at)

SpecInsert == Init /\ [][NextInsert]_vars

\* a post of three words
ThreeWordPost == << "<p>", "a", " ", "a", " ", "a", "</p>" >>

\* typing with the footer statistics
NextStats ==
    \/ \E html \in {ThreeWordPost, PlainPost, << >>} : HostSetContent(html)
    \/ Reconcile
    \/ \E id \in Ids(dom), collapsed \in BOOLEAN : ClickBlock(id, collapsed)
    \/ ClickRoot
    \/ \E c \in {"a", " "} : TypeChar(c)
    \/ \E t \in timers : RunCheckSelection(t)

SpecStats == Init /\ [][NextStats]_vars

-----------------------------------------------------------------------------
(* Content synchronization: properties *)

\* C1: when the content prop has changed while the surface holds focus and the
\* incoming string differs from the serialization of the DOM, the effect
\* overwrites the DOM with the incoming string if the string is empty or the
\* two lengths differ by more than 10, and leaves the DOM as it is otherwise.
C1_FocusedOverwriteRule ==
    [][(syncPending /\ focused /\ content # Serialize(dom)) =>
            IF content = << >> \/ Abs(StrLen(content) - StrLen(Serialize(dom))) > 10
            THEN dom' = SetInnerHTML(content, Referenced)
            ELSE dom' = dom]_vars

\* a focused reconciliation that kept the DOM although the non-empty incoming
\* string differs from it
C1_Witness ==
    /\ lastOp = "Reconcile"
    /\ focused
    /\ content # << >>
    /\ content # Serialize(dom)
    /\ Abs(StrLen(content) - StrLen(Serialize(dom))) = 10

\* C2: reconciliation with an empty incoming string leaves the serialization of
\* the DOM empty, focused or not, whatever the DOM held.
C2_EmptyClears ==
    [][(syncPending /\ content = << >>) => Serialize(dom') = << >>]_vars

\* a focused reconciliation with the empty string that removed blocks which the
\* block tracker still refers to
C2_Witness ==
    /\ lastOp = "Reconcile"
    /\ focused
    /\ content = << >>
    /\ dom = << >>
    /\ detached # {}

\* C3 as stated: an unfocused reconciliation ends with the serialization of the
\* DOM equal to the incoming string, for every incoming string.
C3_UnfocusedEqualsIncoming ==
    [][(syncPending /\ ~focused) => Serialize(dom') = content]_vars

\* C3 amended: an unfocused reconciliation ends with the DOM that the HTML parser
\* builds from the incoming string, so that the serialization is the incoming
\* string as the serializer spells it, and the incoming string itself when that
\* string is such a serialization.
C3_UnfocusedEqualsParsed ==
    [][(syncPending /\ ~focused) =>
            LET parsed == Serialize(SetInnerHTML(content, {}))
            IN  /\ Serialize(dom') = parsed
                /\ content = parsed => Serialize(dom') = content]_vars

\* an unfocused reconciliation that replaced a different document
C3_Witness ==
    /\ lastOp = "Reconcile"
    /\ ~focused
    /\ content # << >>
    /\ Serialize(dom) = content
    /\ detached # {}

\* C6: no run of the effect calls onChange: the host's content is what it was
\* and nothing was emitted, whether the strings were identical, the update was
\* suppressed or the DOM was overwritten.
C6_ReconcileNeverEmits ==
    [][syncPending => (emits' = << >> /\ content' = content)]_vars

\* an effect run that overwrote the DOM, and one that was suppressed
C6_Witness ==
    /\ lastOp = "Reconcile"
    /\ emits = << >>
    /\ dom # << >>
    /\ \/ detached # {}
       \/ Serialize(dom) # content

\* C7: when the incoming string is the serialization of the DOM the effect
\* writes nothing; so after an edit has emitted onChange(h) and the host passes
\* h back, the DOM stays as it is, nothing more is emitted and no further
\* reconciliation is due.
C7_EchoQuiescence ==
    /\ [][(syncPending /\ content = Serialize(dom)) =>
            (dom' = dom /\ emits' = << >> /\ content' = content /\ ~syncPending')]_vars
    /\ []((lastOp = "TypeChar" /\ syncPending) =>
            (emits = << content >> /\ content = Serialize(dom)))

\* the echo of a typed character has been reconciled
C7_Witness ==
    /\ lastOp = "Reconcile"
    /\ focused
    /\ sel.kind = "block"
    /\ content = Serialize(dom)
    /\ \E i \in 1..Len(dom) : dom[i].id = sel.node /\ Len(TextOf(dom[i])) = MaxText

-----------------------------------------------------------------------------
(* Block operations: properties *)

\* C4: each block operation that changes the document (insert-next, delete,
\* duplicate, move-up, move-down, a drop with a target) calls onChange with the
\* serialization of the document it leaves behind.
C4_BlockOpsEmit ==
    [][(lastOp' \in {"addNextLine", "delete", "duplicate", "up", "down", "drop"}
            /\ Serialize(dom') # Serialize(dom)) =>
        emits' = << Serialize(dom') >>]_vars

-----------------------------------------------------------------------------
(* Drag and drop: properties *)

\* C9: a drop with a resolved target (T, pos), T a block of the document other
\* than the block the drop moves, leaves that block immediately before T when
\* pos is "before" and immediately after T when pos is "after"; the other
\* blocks keep their relative order and every block keeps its content.
C9_DropReinsertsAtTarget ==
    [][(lastOp' = "drop" /\ isDragging /\ activeBlock # NoNode
            /\ dropTargetInfo.el \in Ids(dom) \ {activeBlock}) =>
        LET src == activeBlock
            T == dropTargetInfo.el
            others(d) == SelectSeq([i \in 1..Len(d) |-> d[i].id], LAMBDA x : x # src)
        IN  /\ src \in Ids(dom')
            /\ others(dom') = others(dom)
            /\ IF dropTargetInfo.pos = "before"
               THEN IndexOf(dom', src) + 1 = IndexOf(dom', T)
               ELSE IndexOf(dom', src) = IndexOf(dom', T) + 1
            /\ \A i \in 1..Len(dom), j \in 1..Len(dom') :
                    dom[i].id = dom'[j].id =>
                        (dom[i].tag = dom'[j].tag /\ dom[i].text = dom'[j].text)]_vars

\* [A, B, C] with A dragged and dropped before C: [B, A, C]
C9_Witness ==
    /\ lastOp = "drop"
    /\ emits # << >>
    /\ Len(dom) = 3
    /\ dom[1].text = << "/" >>
    /\ dom[2].id = activeBlock
    /\ dom[2].text = << "a" >>
    /\ dom[3].tag = "hr"

\* C10: a drop that finds no resolved target, no drag in progress or no active
\* block leaves the blocks of the document, their order and their content as
\* they are, calls onChange with nothing, and clears the drag state (isDragging,
\* drop indicator, drop target).
C10_DropWithoutTarget ==
    [][(lastOp' = "drop"
            /\ (~isDragging \/ activeBlock = NoNode \/ dropTargetInfo.el = NoNode)) =>
        LET blocks(d) == [i \in 1..Len(d) |-> << d[i].id, d[i].tag, d[i].text >>]
        IN  /\ blocks(dom') = blocks(dom)
            /\ emits' = << >>
            /\ content' = content
            /\ ~isDragging'
            /\ ~dropIndicator'
            /\ dropTargetInfo' = NoTarget]_vars

\* a drag of a dimmed block ended in a drop with no target resolved
C10_Witness ==
    /\ lastOp = "drop"
    /\ emits = << >>
    /\ dragSession
    /\ ~isDragging
    /\ activeBlock \in Ids(dom)
    /\ dom[IndexOf(dom, activeBlock)].dim = Cleared
    /\ Serialize(dom) # content

-----------------------------------------------------------------------------
(* Asynchronous AI operations: properties *)

\* C5: when an asynchronous AI operation settles (a rewrite of the selection, an
\* image generation that succeeds or fails), the change it made to the DOM is
\* passed to onChange, so that the host's content is the serialization of the
\* DOM once the handler has returned.
C5_AiChangesEmitted ==
    [][(lastOp' \in {"aiResolves", "aiFails", "imageResolves", "imageFails",
                     "authorizationSettles"}
            /\ Serialize(dom') # Serialize(dom)) =>
        (emits' = << Serialize(dom') >> /\ content' = Serialize(dom'))]_vars

-----------------------------------------------------------------------------
(* Drag end: properties *)

\* C11: once a drag has ended, with a drop before it or without, the drag state
\* is cleared: isDragging is false, the drop indicator and the drop target are
\* null, and no block of the document carries opacity-40; in every interleaving
\* of the styling callback of drag-start, the recomputations of the active
\* block and drag-end.
C11_DragEndClearsAll ==
    ~dragSession =>
        /\ ~isDragging
        /\ ~dropIndicator
        /\ dropTargetInfo = NoTarget
        /\ \A i \in 1..Len(dom) : dom[i].dim # Dimmed

-----------------------------------------------------------------------------
(* Menus: properties *)

\* C12: at most one of the slash menu and the bubble menu is open in any state
\* (so that opening one closes the other in the same step).
C12_OneMenuOpen == ~(showMenu /\ showBubbleMenu)

-----------------------------------------------------------------------------
(* Slash menu: properties *)

\* C13: an input event in a paragraph while the slash menu is closed opens the
\* menu if and only if the text in front of the caret ends with "/".
C13_SlashOpensBeforeCaret ==
    [][(/\ lastOp' = "TypeChar"
        /\ ~showMenu
        /\ sel'.kind = "block"
        /\ sel'.node \in Ids(dom')
        /\ dom'[IndexOf(dom', sel'.node)].tag = "p") =>
            (showMenu' <=>
                EndsWithSlash(BeforeCaret(TextOf(dom'[IndexOf(dom', sel'.node)]),
                                          sel'.tail)))]_vars

\* C14: with the slash menu open, an input event closes the menu if the text
\* holding the caret contains no "/" afterwards and leaves it open if that text
\* still contains one; a click outside the menu closes it.
C14_OpenMenuFollowsSlash ==
    [][/\ (/\ lastOp' = "TypeChar"
           /\ showMenu
           /\ sel'.kind = "block"
           /\ sel'.node \in Ids(dom')) =>
               (showMenu' <=> IncludesSlash(TextOf(dom'[IndexOf(dom', sel'.node)])))
       /\ (lastOp' = "closeMenu" /\ showMenu) => ~showMenu']_vars

\* C15: choosing an entry of the slash menu closes the menu, whatever the outcome
\* of the entry's action (a cancelled file picker, a cancelled or invalid prompt
\* included).
C15_EntryClosesMenu ==
    [][(/\ showMenu
        /\ lastOp' \in {"execCommand", "chooseFragment", "chooseImage", "videoEmbed",
                        "generateAiImage"}) =>
            ~showMenu']_vars

\* C16: when the menu is open with the caret right behind the "/" that opened it
\* (the only "/" of the document) and a block type is chosen, the content passed
\* to onChange contains no "/".
C16_TriggerRemoved ==
    [][(/\ showMenu
        /\ lastOp' \in {"execCommand", "chooseFragment", "chooseImage", "videoEmbed",
                        "generateAiImage"}
        /\ sel.kind = "block"
        /\ sel.collapsed
        /\ sel.tail = 0
        /\ sel.node \in Ids(dom)
        /\ EndsWithSlash(TextOf(Deref(sel.node)))
        /\ Cardinality({k \in 1..Len(DocText(dom)) : DocText(dom)[k] = "/"}) = 1
        /\ emits' # << >>) =>
            ~IncludesSlash(emits'[1])]_vars

-----------------------------------------------------------------------------
(* Bubble menu: properties *)

\* C17: a selection check opens the bubble menu if and only if the selection is
\* a range with text in it whose anchor is inside the editable root, and the
\* range it captures when it opens is the range of that selection.
C17_BubbleOpensOnSelection ==
    [][lastOp' = "checkSelection" =>
        LET ranged == /\ sel.kind = "block"
                      /\ ~sel.collapsed
                      /\ sel.node \in Ids(dom)
                      /\ TextOf(Deref(sel.node)) # << >>
        IN  /\ ranged => showBubbleMenu' /\ selectionRange' = sel.node
            /\ (~ranged /\ ~showBubbleMenu) => ~showBubbleMenu']_vars

\* C18: when an AI rewrite request settles, resolved or rejected, the AI mode is
\* "none" and the bubble menu is closed; the mode is "loading" only while a
\* request is pending.
C18_SettleLeavesLoading ==
    /\ [][lastOp' \in {"aiResolves", "aiFails"} =>
            (aiMode' = "none" /\ ~showBubbleMenu')]_vars
    /\ [](aiMode = "loading" => aiReq # << >>)

\* a request that was rejected has settled
C18_Witness ==
    /\ lastOp = "aiFails"
    /\ aiReq = << >>
    /\ aiMode = "none"
    /\ ~showBubbleMenu

\* C19: at most one AI rewrite request is pending at any time, and while one is
\* pending the AI mode is "loading" and no step issues another.
C19_OneRequestInFlight ==
    /\ [](Len(aiReq) <= 1)
    /\ [](aiReq # << >> => aiMode = "loading")
    /\ [][aiMode = "loading" => Len(aiReq') <= Len(aiReq)]_vars

\* the user has acted on the editor while a request was pending
C19_Witness ==
    /\ Len(aiReq) = 1
    /\ aiMode = "loading"
    /\ showBubbleMenu
    /\ lastOp \in {"ClickBlock", "TypeChar"}

\* C20: when an AI rewrite resolves, the returned content replaces the text of
\* the range that was selected when the request was issued, or nothing is
\* inserted; every other part of the document is as it was.
C20_InsertsAtIssuedRange ==
    [][lastOp' = "aiResolves" =>
        /\ Len(dom') = Len(dom)
        /\ \A i \in 1..Len(dom) :
              IF dom[i].id = Head(aiReq)
              THEN dom'[i] \in {dom[i], [dom[i] EXCEPT !.text = Improved]}
              ELSE dom'[i] = dom[i]]_vars

-----------------------------------------------------------------------------
(* Inline code: properties *)

\* C21: toggling inline code twice with the selection left as the first toggle
\* leaves it gives back the serialization the document had before the first
\* toggle, whenever the first toggle wrapped or unwrapped something.
C21_ToggleTwiceIdentity ==
    \A inside \in BOOLEAN, again \in BOOLEAN :
        LET first == ToggleCodeResult(dom, sel, inside)
            second == ToggleCodeResult(first.dom, first.sel, again)
        IN  first.dom # dom => Serialize(second.dom) = Serialize(dom)

-----------------------------------------------------------------------------
(* Footer statistics: properties *)

\* C22: whenever the effects of the last render have run, the word count is the
\* number of whitespace-separated words of the document text and the reading
\* time is that count divided by 200, rounded up; the post "a a a" of three
\* words gives 3 and 1, the empty document 0 and 0.
C22_StatsFollowContent ==
    Idle =>
        /\ wordCount = Words(dom)
        /\ readingTime = IF wordCount = 0 THEN 0 ELSE ((wordCount - 1) \div 200) + 1
        /\ Serialize(dom) = ThreeWordPost => wordCount = 3 /\ readingTime = 1
        /\ dom = << >> => wordCount = 0 /\ readingTime = 0

-----------------------------------------------------------------------------
(* AI image: properties *)

\* C23: one AI-image insertion calls generateImage at most twice; the second call
\* is made only when openSelectKey completed, which is awaited only after the
\* first call failed asking for authorization; a failure of the second call, and
\* a failure that does not ask for authorization, is written into the
\* placeholder and no call follows it.
C23_AtMostOneRetry ==
    [][/\ imgCalls' <= 2
       /\ imgCalls' > imgCalls /\ imgCalls > 0 =>
            lastOp' = "authorizationSettles" /\ imgReq = "auth"
       /\ imgReq' = "auth" /\ imgReq # "auth" =>
            lastOp' = "imageFails" /\ imgReq = "first" /\ imgCalls = 1
       /\ \A authorization \in BOOLEAN :
            RetryOffered(imgReq, authorization) => authorization /\ imgCalls = 1
       /\ lastOp' = "imageFails" /\ imgReq' # "auth" =>
            /\ imgReq' = "idle" /\ imgCalls' = 0
            /\ Placeholder(dom) # NoNode =>
                    dom'[IndexOf(dom, Placeholder(dom))].tag = "error"
       /\ lastOp' = "imageFails" /\ imgCalls = 2 => imgReq' = "idle"]_vars

\* the second call is in flight, its placeholder in the document
C23_Witness == imgReq = "retry" /\ imgCalls = 2 /\ Placeholder(dom) # NoNode

-----------------------------------------------------------------------------
(* Document structure: properties *)

\* C24: no operation other than typing puts anything but block elements directly
\* under the root: if every child of the root is a block element before a step
\* that is not a key stroke, every child is one after it.
C24_RootChildrenAreBlocks ==
    [][(/\ lastOp' # "TypeChar"
        /\ \A i \in 1..Len(dom) : dom[i].tag \in BlockTags)
            => \A i \in 1..Len(dom') : dom'[i].tag \in BlockTags]_vars

\* C25: the imperative insertHtml, called while the selection is absent or
\* outside the editor, leaves the serialization of the document as it was
\* followed by the fragment, and passes that serialization, which getHtml()
\* returns, to onChange.
C25_AppendsAtEnd ==
    [][(lastOp' = "sidebarInsert" /\ sel.kind \in {"none", "outside"}) =>
            /\ Serialize(dom') = Serialize(dom) \o SidebarText
            /\ emits' = << Serialize(dom') >>]_vars

-----------------------------------------------------------------------------
(* Drop target: properties *)

\* C26: a drag-over during a drag sets the drop target to the result for some
\* layout and pointer, and for every layout and pointer that result is: an
\* element child of the root other than the dragged block, at most 150 px from
\* the pointer and no farther than any other such child within 150 px, with
\* "before" exactly when the pointer is above its centre; or no target, when no
\* such child is within 150 px.
C26_NearestBlockWithinThreshold ==
    /\ [][lastOp' = "dragOver" =>
            /\ \E h \in Layouts(dom), y \in PointerYs :
                    dropTargetInfo' = DragOverResult(dom, activeBlock, h, y)
            /\ dropIndicator' = (dropTargetInfo'.el # NoNode)
            /\ dropTargetInfo'.el # activeBlock]_vars
    /\ [](isDragging /\ activeBlock # NoNode =>
            \A h \in Layouts(dom), y \in PointerYs :
                LET r == DragOverResult(dom, activeBlock, h, y)
                    others == {i \in 1..Len(dom) :
                                    dom[i].tag \in BlockTags /\ dom[i].id # activeBlock}
                    centre(i) == Top(h, i) + h[i] \div 2
                    dist(i) == IF y < centre(i) THEN centre(i) - y ELSE y - centre(i)
                IN  IF r.el = NoNode
                    THEN \A i \in others : dist(i) >= 150
                    ELSE LET t == IndexOf(dom, r.el)
                         IN  /\ t \in others
                             /\ dist(t) <= 150
                             /\ \A i \in others : dist(i) < 150 => dist(t) <= dist(i)
                             /\ r.pos = "before" <=> y < centre(t))

\* a drag-over has chosen, between two blocks that are not dragged, the target
C26_Witness ==
    /\ lastOp = "dragOver"
    /\ isDragging
    /\ dropTargetInfo.el \in Ids(dom) \ {activeBlock}
    /\ Cardinality({i \in 1..Len(dom) : dom[i].tag \in BlockTags /\ dom[i].id # activeBlock}) = 2

-----------------------------------------------------------------------------
(* Block operations: properties *)

\* C27: "up" exchanges the active block with the child of the root in front of
\* it, "down" with the child behind it, and every other child stays where it is;
\* "up" on the first child and "down" on the last leave the document as it is.
C27_MoveSwapsNeighbours ==
    [][LET i == IndexOf(dom, activeBlock)
       IN  /\ lastOp' = "up" =>
                IF i > 1
                THEN /\ Len(dom') = Len(dom)
                     /\ dom'[i - 1] = dom[i] /\ dom'[i] = dom[i - 1]
                     /\ \A j \in 1..Len(dom) : j \notin {i - 1, i} => dom'[j] = dom[j]
                ELSE dom' = dom
           /\ lastOp' = "down" =>
                IF i > 0 /\ i < Len(dom)
                THEN /\ Len(dom') = Len(dom)
                     /\ dom'[i + 1] = dom[i] /\ dom'[i] = dom[i + 1]
                     /\ \A j \in 1..Len(dom) : j \notin {i, i + 1} => dom'[j] = dom[j]
                ELSE dom' = dom]_vars

\* the second paragraph of the stored post has been moved up
C27_Witness ==
    /\ lastOp = "up"
    /\ Serialize(dom) = << "<p>", "/", "</p>", "<p>", "a", "</p>", "<hr>" >>
    /\ IndexOf(dom, activeBlock) = 1

\* C28: "duplicate" puts a copy of the active block right behind it: the document
\* has one child more, the copy is a new node with the type, attributes and
\* content of the original, and the children in front of and behind the pair
\* are those that were in front of and behind the original.
C28_DuplicateInsertsCopyAfter ==
    [][lastOp' = "duplicate" =>
        LET i == IndexOf(dom, activeBlock)
        IN  /\ i > 0
            /\ Len(dom') = Len(dom) + 1
            /\ SubSeq(dom', 1, i) = SubSeq(dom, 1, i)
            /\ dom'[i + 1] = [dom[i] EXCEPT !.id = dom'[i + 1].id]
            /\ dom'[i + 1].id \notin Ids(dom)
            /\ SubSeq(dom', i + 2, Len(dom')) = SubSeq(dom, i + 1, Len(dom))]_vars

\* C29: "insert next" puts one new empty paragraph right behind the active block
\* (at the end when the active block is the last child) and leaves the rest of
\* the document as it was; after it the caret is in the new paragraph, the new
\* paragraph is the active block and the slash menu is open.
C29_InsertNextAfterActive ==
    [][lastOp' = "addNextLine" =>
        LET i == IndexOf(dom, activeBlock)
        IN  /\ i > 0
            /\ Len(dom') = Len(dom) + 1
            /\ SubSeq(dom', 1, i) = SubSeq(dom, 1, i)
            /\ SubSeq(dom', i + 2, Len(dom')) = SubSeq(dom, i + 1, Len(dom))
            /\ dom'[i + 1].tag = "p"
            /\ TextOf(dom'[i + 1]) = << >>
            /\ dom'[i + 1].id \notin Ids(dom)
            /\ sel'.kind = "block" /\ sel'.node = dom'[i + 1].id /\ sel'.collapsed
            /\ activeBlock' = dom'[i + 1].id
            /\ showMenu']_vars

-----------------------------------------------------------------------------
(* Block tracker: properties *)

\* C30: a recomputation of the active block (on its own or as part of a selection
\* check) makes the child of the root that holds the selection anchor the active
\* block and shows the side controls; with no selection, or the anchor outside
\* the editor or on the root itself, the side controls are hidden unless a drag
\* is in progress.
C30_ActiveBlockFollowsAnchor ==
    [][lastOp' \in {"updateActiveBlock", "checkSelection"} =>
        IF sel.kind = "block" /\ sel.node \in Ids(dom)
        THEN activeBlock' = sel.node /\ showSideControls'
        ELSE ~isDragging /\ ~dragSession => ~showSideControls']_vars

\* C31: while a drag is in progress, a recomputation of the active block (on its
\* own or as part of a selection check) leaves the side controls shown and the
\* dragged block the active block.
C31_DragKeepsSideControls ==
    [][(/\ lastOp' \in {"updateActiveBlock", "checkSelection"}
        /\ isDragging /\ dragSession
        /\ showSideControls) => showSideControls']_vars

\* C32: whenever the side controls are shown, the active block is a child of the
\* root in the current document.
C32_ActiveBlockAttached == showSideControls => activeBlock \in Ids(dom)

-----------------------------------------------------------------------------
(* Bubble menu: properties *)

\* C33: while the AI mode is "loading" and the request has not settled, no step
\* closes the bubble menu.
C33_LoadingKeepsBubble ==
    [][(aiMode = "loading" /\ aiMode' = "loading" /\ showBubbleMenu) => showBubbleMenu']_vars

\* C34: with the bubble menu open in the format mode or in the prompt mode, a
\* selection check that finds the selection collapsed, or not in the editor,
\* closes the bubble menu.
C34_CollapseClosesBubble ==
    [][(/\ lastOp' = "checkSelection"
        /\ showBubbleMenu
        /\ aiMode \in {"none", "prompt"}
        /\ sel.kind \in {"none", "outside"} \/ sel.collapsed) => ~showBubbleMenu']_vars

\* C35: a format button of the bubble menu (a native command, inline code, the
\* font) leaves the bubble menu open in the format mode, and three presses of
\* the font button return the font to where it was.
C35_FormatKeepsBubble ==
    [][(/\ \/ lastOp' \in {"formatSelection", "cycleFont"}
           \/ (lastOp' = "toggleInlineCode" /\ timers' = timers)
        /\ showBubbleMenu
        /\ aiMode = "none") =>
            /\ showBubbleMenu'
            /\ aiMode' = "none"
            /\ FontAfter(FontAfter(FontAfter(fontStyle'))) = fontStyle'
            /\ FontAfter(fontStyle') # fontStyle'
            /\ FontAfter(FontAfter(fontStyle')) # fontStyle']_vars

\* C36: when an AI image request settles, no placeholder is left in the document
\* in its "Generating" state: it became the image or the failure message.
C36_SettledLeavesNoPlaceholder ==
    [][(imgReq # "idle" /\ imgReq' = "idle") => Placeholder(dom') = NoNode]_vars

\* C37: an insertHtml call through the imperative handle while the slash menu is
\* closed and nothing is selected removes no "/" from the document: the
\* document has as many of them after the call as before.
C37_HandleInsertKeepsSlashes ==
    [][(/\ lastOp' = "sidebarInsert"
        /\ ~showMenu
        /\ sel.kind = "block" => sel.collapsed) =>
            LET Slashes(html) == Len(SelectSeq(html, LAMBDA x : x = "/"))
            IN  Slashes(Serialize(dom')) >= Slashes(Serialize(dom))]_vars

\* C38: a move up, a move down, a drop and the end of a drag leave the document
\* with the blocks it had, each once and with its content; only their order
\* may differ.
C38_ReorderKeepsBlocks ==
    [][lastOp' \in {"up", "down", "drop", "dragEnd"} =>
        LET blocks(d) == {<< d[i].id, d[i].tag, d[i].text >> : i \in 1..Len(d)}
        IN  /\ Len(dom') = Len(dom)
            /\ blocks(dom') = blocks(dom)]_vars

\* C39: the block a drop moves is the active block, and between drag-start and
\* the drop that is the block of drag-start: no step taken while a drag is in
\* progress changes the active block.
C39_DragSourceFixed ==
    [][(isDragging /\ isDragging') => activeBlock' = activeBlock]_vars

====
